---- MODULE Spec2Model ----
(***************************************************************************)
(* The chat assistant of the EUC content hub (src/chat_lambda.py): one     *)
(* chat request, from the event to the API response.  Texts are strings,   *)
(* matched by substring containment as the code does it; a post is a       *)
(* function from the field names it has to their values, as a dict is.     *)
(***************************************************************************)
EXTENDS Integers, Sequences, FiniteSets, TLC

(***************************************************************************)
(* Text primitives: str.lower, str.strip, `in`, str.split, re.findall.     *)
(***************************************************************************)

UpperToLower ==
    [A |-> "a", B |-> "b", C |-> "c", D |-> "d", E |-> "e", F |-> "f",
     G |-> "g", H |-> "h", I |-> "i", J |-> "j", K |-> "k", L |-> "l",
     M |-> "m", N |-> "n", O |-> "o", P |-> "p", Q |-> "q", R |-> "r",
     S |-> "s", T |-> "t", U |-> "u", V |-> "v", W |-> "w", X |-> "x",
     Y |-> "y", Z |-> "z"]

LowerChar(c) == IF c \in DOMAIN UpperToLower THEN UpperToLower[c] ELSE c

RECURSIVE Lower(_)
\* str.lower(), character by character (the text is halved so that long
\* contents do not nest deeply).
Lower(s) ==
    IF Len(s) = 0 THEN ""
    ELSE IF Len(s) = 1 THEN LowerChar(s)
    ELSE LET h == Len(s) \div 2 IN
         Lower(SubSeq(s, 1, h)) \o Lower(SubSeq(s, h + 1, Len(s)))

Whitespace == {" ", "\t", "\n", "\r"}

RECURSIVE LStrip(_)
LStrip(s) ==
    IF s # "" /\ SubSeq(s, 1, 1) \in Whitespace
    THEN LStrip(SubSeq(s, 2, Len(s)))
    ELSE s

RECURSIVE RStrip(_)
RStrip(s) ==
    IF s # "" /\ SubSeq(s, Len(s), Len(s)) \in Whitespace
    THEN RStrip(SubSeq(s, 1, Len(s) - 1))
    ELSE s

\* str.strip()
Strip(s) == RStrip(LStrip(s))

\* sub in s (the empty string is in every string)
Contains(sub, s) ==
    \E i \in 1..(Len(s) - Len(sub) + 1) : SubSeq(s, i, i + Len(sub) - 1) = sub

\* s[:n]
Prefix(s, n) == SubSeq(s, 1, IF Len(s) < n THEN Len(s) ELSE n)

Digits == {"0", "1", "2", "3", "4", "5", "6", "7", "8", "9"}

LowerLetters ==
    {"a", "b", "c", "d", "e", "f", "g", "h", "i", "j", "k", "l", "m",
     "n", "o", "p", "q", "r", "s", "t", "u", "v", "w", "x", "y", "z"}

\* \w of the regular expression
IsWordChar(c) ==
    c \in LowerLetters \/ c \in DOMAIN UpperToLower \/ c \in Digits \/ c = "_"

RECURSIVE FindWords(_, _)
\* re.findall(r'\b\w+\b', s) from position i on: the next maximal run of
\* word characters, then those behind it.
FindWords(s, i) ==
    LET word_at == {k \in i..Len(s) : IsWordChar(SubSeq(s, k, k))} IN
    IF word_at = {} THEN <<>>
    ELSE LET first == CHOOSE k \in word_at : \A x \in word_at : k <= x
             behind == {k \in first..Len(s) : ~IsWordChar(SubSeq(s, k, k))}
             last == IF behind = {} THEN Len(s)
                     ELSE (CHOOSE k \in behind : \A x \in behind : k <= x) - 1
         IN <<SubSeq(s, first, last)>> \o FindWords(s, last + 1)

(***************************************************************************)
(* Sequence helpers.                                                       *)
(***************************************************************************)

\* seq[:n]
Take(seq, n) == SubSeq(seq, 1, IF Len(seq) < n THEN Len(seq) ELSE n)

\* dict.get(field, default)
Get(post, field, default) ==
    IF field \in DOMAIN post THEN post[field] ELSE default

(***************************************************************************)
(* The domain taxonomy and the keyword extraction.                         *)
(***************************************************************************)

\* The keys of EUC_DOMAINS in the order the dict literal lists them, which
\* is the order dict.items() iterates in.
DomainOrder ==
    <<"workspaces", "appstream", "workspaces_web", "workspaces_thin_client",
      "dcv", "workdocs", "chime", "connect", "end_user_computing">>

EUC_DOMAINS ==
    [workspaces |-> <<"workspaces", "workspace", "virtual desktop", "vdi", "daas">>,
     appstream |-> <<"appstream", "app stream", "application streaming">>,
     workspaces_web |-> <<"workspaces web", "workspace web", "web access">>,
     workspaces_thin_client |-> <<"thin client", "thinclient", "zero client">>,
     dcv |-> <<"dcv", "nice dcv", "streaming protocol">>,
     workdocs |-> <<"workdocs", "work docs", "document collaboration">>,
     chime |-> <<"chime", "video conferencing">>,
     connect |-> <<"connect", "contact center">>,
     end_user_computing |-> <<"euc", "end user computing", "end-user computing",
                              "remote work", "hybrid work">>]

\* detect_domain's None
NoDomain == "None"

stop_words ==
    {"the", "a", "an", "and", "or", "but", "in", "on", "at", "to", "for",
     "of", "with", "by", "from", "about", "how", "what", "when", "where",
     "why", "which", "who", "i", "want", "need", "help", "me", "my"}

MinKeywordLen == 2

\* The filter as it would be with `len(w) >= 2`.
IsKeywordFromTwo(w) == w \notin stop_words /\ Len(w) >= MinKeywordLen

IsKeyword(w) == w \notin stop_words /\ Len(w) > MinKeywordLen

\* keywords = [w for w in re.findall(r'\b\w+\b', query_lower)
\*             if w not in stop_words and len(w) > 2]
ExtractKeywords(query_lower) ==
    SelectSeq(FindWords(query_lower, 1), IsKeyword)

RECURSIVE DetectFrom(_, _)
\* The loop of detect_domain from the d-th domain on: the first domain
\* one of whose keywords is in the query.
DetectFrom(query, d) ==
    IF d > Len(DomainOrder) THEN NoDomain
    ELSE LET kws == EUC_DOMAINS[DomainOrder[d]] IN
         IF \E k \in 1..Len(kws) : Contains(kws[k], query)
         THEN DomainOrder[d]
         ELSE DetectFrom(query, d + 1)

\* detect_domain as it would be without the return inside the loop: the
\* last domain one of whose keywords is in the query.
DetectLast(query) ==
    LET hit == {d \in 1..Len(DomainOrder) :
                  \E k \in 1..Len(EUC_DOMAINS[DomainOrder[d]]) :
                      Contains(EUC_DOMAINS[DomainOrder[d]][k], query)}
    IN IF hit = {} THEN NoDomain
       ELSE DomainOrder[CHOOSE d \in hit : \A e \in hit : e <= d]

detect_domain(query) == DetectFrom(query, 1)

(***************************************************************************)
(* is_recent_post: the date is read from the text, then compared with the  *)
(* evaluation time minus 180 days.  An evaluation time is a day (the       *)
(* proleptic ordinal of its date) and whether its time of day is past      *)
(* midnight; a parsed post date is the midnight that starts its day.       *)
(***************************************************************************)

RecentDays == 180

DigitValue ==
    [c \in Digits |->
        CASE c = "0" -> 0 [] c = "1" -> 1 [] c = "2" -> 2 [] c = "3" -> 3
          [] c = "4" -> 4 [] c = "5" -> 5 [] c = "6" -> 6 [] c = "7" -> 7
          [] c = "8" -> 8 [] c = "9" -> 9]

AllDigits(s) == \A i \in 1..Len(s) : SubSeq(s, i, i) \in Digits

RECURSIVE ToNumber(_)
\* The number a string of digits writes.
ToNumber(s) ==
    IF s = "" THEN 0
    ELSE 10 * ToNumber(SubSeq(s, 1, Len(s) - 1))
         + DigitValue[SubSeq(s, Len(s), Len(s))]

RECURSIVE BeforeT(_)
\* date_str.split('T')[0]
BeforeT(s) ==
    IF s = "" \/ SubSeq(s, 1, 1) = "T" THEN ""
    ELSE SubSeq(s, 1, 1) \o BeforeT(SubSeq(s, 2, Len(s)))

IsLeap(y) == y % 4 = 0 /\ (y % 100 # 0 \/ y % 400 = 0)

DaysInMonth(y, m) ==
    IF m = 2 THEN (IF IsLeap(y) THEN 29 ELSE 28)
    ELSE IF m \in {4, 6, 9, 11} THEN 30 ELSE 31

RECURSIVE DaysBeforeMonth(_, _)
DaysBeforeMonth(y, m) ==
    IF m = 1 THEN 0 ELSE DaysBeforeMonth(y, m - 1) + DaysInMonth(y, m - 1)

\* date(y, m, d).toordinal()
Ordinal(y, m, d) ==
    LET p == y - 1 IN
    p * 365 + (p \div 4) - (p \div 100) + (p \div 400) + DaysBeforeMonth(y, m) + d

\* What datetime.fromisoformat raises ValueError for.
Unparsable == -1

\* datetime.fromisoformat of a date without a time, as the ordinal of the
\* day: the text is YYYY-MM-DD and names a day of the calendar.
ParseIsoDate(s) ==
    IF /\ Len(s) = 10
       /\ SubSeq(s, 5, 5) = "-" /\ SubSeq(s, 8, 8) = "-"
       /\ AllDigits(SubSeq(s, 1, 4)) /\ AllDigits(SubSeq(s, 6, 7))
       /\ AllDigits(SubSeq(s, 9, 10))
    THEN LET y == ToNumber(SubSeq(s, 1, 4))
             m == ToNumber(SubSeq(s, 6, 7))
             d == ToNumber(SubSeq(s, 9, 10))
         IN IF y >= 1 /\ m \in 1..12 /\ d >= 1 /\ d <= DaysInMonth(y, m)
            THEN Ordinal(y, m, d)
            ELSE Unparsable
    ELSE Unparsable

\* post_date >= datetime.now() - timedelta(days=180), the post date being a
\* midnight: on the boundary day it holds only at midnight exactly.
NotBefore(post_day, at) ==
    \/ post_day > at.day - RecentDays
    \/ post_day = at.day - RecentDays /\ ~at.after_midnight

is_recent_post(date_str, at) ==
    IF date_str = "" THEN FALSE
    ELSE LET post_day == ParseIsoDate(BeforeT(date_str)) IN
         IF post_day = Unparsable THEN FALSE   \* except: return False
         ELSE NotBefore(post_day, at)

(***************************************************************************)
(* The Ranker's scorer: the body of the loop of filter_and_score_posts.    *)
(***************************************************************************)

ContentLimit == 1000

\* One round of `for keyword in keywords`.
KeywordPoints(keyword, title, summary, tags, content) ==
    (IF Contains(keyword, title) THEN 5 ELSE 0)
    + (IF Contains(keyword, summary) THEN 3 ELSE 0)
    + (IF Contains(keyword, tags) THEN 4 ELSE 0)
    + (IF Contains(keyword, content) THEN 1 ELSE 0)

\* The three branches as they would be with `if` in place of `elif`.
DomainPointsEveryField(domain_kw, title, summary, tags) ==
    (IF Contains(domain_kw, title) THEN 8 ELSE 0)
    + (IF Contains(domain_kw, summary) THEN 6 ELSE 0)
    + (IF Contains(domain_kw, tags) THEN 7 ELSE 0)

\* One round of `for domain_kw in domain_keywords`: if / elif / elif.
DomainPoints(domain_kw, title, summary, tags) ==
    IF Contains(domain_kw, title) THEN 8
    ELSE IF Contains(domain_kw, summary) THEN 6
    ELSE IF Contains(domain_kw, tags) THEN 7
    ELSE 0

\* The keyword loop as it would be with its body behind the loop: the last
\* keyword alone is scored.
KeywordLoopLastOnly(keywords, k, title, summary, tags, content) ==
    IF keywords = <<>> THEN 0
    ELSE KeywordPoints(keywords[Len(keywords)], title, summary, tags, content)

RECURSIVE KeywordLoop(_, _, _, _, _, _)
\* The keyword loop from the k-th keyword on.
KeywordLoop(keywords, k, title, summary, tags, content) ==
    IF k > Len(keywords) THEN 0
    ELSE KeywordPoints(keywords[k], title, summary, tags, content)
         + KeywordLoop(keywords, k + 1, title, summary, tags, content)

RECURSIVE DomainLoop(_, _, _, _, _)
\* The domain-keyword loop from the k-th domain keyword on.
DomainLoop(domain_keywords, k, title, summary, tags) ==
    IF k > Len(domain_keywords) THEN 0
    ELSE DomainPoints(domain_keywords[k], title, summary, tags)
         + DomainLoop(domain_keywords, k + 1, title, summary, tags)

\* The boost as it would be for every post that has a date.
RecencyPointsAnyDate(post, at) ==
    IF Get(post, "date_published", "") # "" THEN 2 ELSE 0

\* if is_recent_post(date_published): score += 2
RecencyPoints(post, at) ==
    IF is_recent_post(Get(post, "date_published", ""), at) THEN 2 ELSE 0

\* The score of one post in filter_and_score_posts.
ScorePost(query_lower, keywords, detected_domain, post, at) ==
    LET title == Lower(Get(post, "title", ""))
        summary == Lower(Get(post, "summary", ""))
        tags == Lower(Get(post, "tags", ""))
        content == Prefix(Lower(Get(post, "content", "")), ContentLimit)
    IN (IF Contains(query_lower, title) THEN 10 ELSE 0)
       + KeywordLoop(keywords, 1, title, summary, tags, content)
       + (IF detected_domain # NoDomain
          THEN DomainLoop(EUC_DOMAINS[detected_domain], 1, title, summary, tags)
          ELSE 0)
       + RecencyPoints(post, at)

(***************************************************************************)
(* The fallback's scorer: the body of the loop of fallback_search.         *)
(***************************************************************************)

FallbackKeywordPoints(keyword, title, summary, tags) ==
    (IF Contains(keyword, title) THEN 5 ELSE 0)
    + (IF Contains(keyword, summary) THEN 3 ELSE 0)
    + (IF Contains(keyword, tags) THEN 4 ELSE 0)

\* if / elif, with no tags branch.
FallbackDomainPoints(domain_kw, title, summary) ==
    IF Contains(domain_kw, title) THEN 8
    ELSE IF Contains(domain_kw, summary) THEN 6
    ELSE 0

RECURSIVE FallbackKeywordLoop(_, _, _, _, _)
FallbackKeywordLoop(keywords, k, title, summary, tags) ==
    IF k > Len(keywords) THEN 0
    ELSE FallbackKeywordPoints(keywords[k], title, summary, tags)
         + FallbackKeywordLoop(keywords, k + 1, title, summary, tags)

RECURSIVE FallbackDomainLoop(_, _, _, _)
FallbackDomainLoop(domain_keywords, k, title, summary) ==
    IF k > Len(domain_keywords) THEN 0
    ELSE FallbackDomainPoints(domain_keywords[k], title, summary)
         + FallbackDomainLoop(domain_keywords, k + 1, title, summary)

\* The score of one post in fallback_search.
FallbackScorePost(query_lower, keywords, detected_domain, post) ==
    LET title == Lower(Get(post, "title", ""))
        summary == Lower(Get(post, "summary", ""))
        tags == Lower(Get(post, "tags", ""))
    IN (IF Contains(query_lower, title) THEN 10 ELSE 0)
       + FallbackKeywordLoop(keywords, 1, title, summary, tags)
       + (IF detected_domain # NoDomain
          THEN FallbackDomainLoop(EUC_DOMAINS[detected_domain], 1, title, summary)
          ELSE 0)

(***************************************************************************)
(* Ranking: scored_posts, its sort and its cut.                            *)
(***************************************************************************)

\* The place an entry would get from a sort that is not stable: before the
\* entries of its score that stand before it in the list, as sorting upwards
\* and reversing the list does.
PlaceTiesReversed(scored, i) ==
    1 + Cardinality({j \in 1..Len(scored) :
                        \/ scored[j].score > scored[i].score
                        \/ scored[j].score = scored[i].score /\ j > i})

\* The place list.sort(reverse=True, key=score) gives the i-th entry: behind
\* the entries of a greater score, and behind those of its own score that
\* stand before it in the list (the sort is stable, also when reversed).
Place(scored, i) ==
    1 + Cardinality({j \in 1..Len(scored) :
                        \/ scored[j].score > scored[i].score
                        \/ scored[j].score = scored[i].score /\ j < i})

\* scored_posts.sort(reverse=True, key=lambda x: x[0])
SortDesc(scored) ==
    LET place == [i \in 1..Len(scored) |-> Place(scored, i)] IN
    [k \in 1..Len(scored) |->
        scored[CHOOSE i \in 1..Len(scored) : place[i] = k]]

\* if score >= 0: scored_posts.append((score, post))
KeepNonNegative(entry) == entry.score >= 0

\* if score > 0: scored_posts.append((score, post))
KeepPositive(entry) == entry.score > 0

CandidateLimit == 50

\* filter_and_score_posts up to its sort: the keywords, the domain and the
\* sorted scored_posts.
RankerScored(query, posts, at) ==
    LET query_lower == Lower(query)
        keywords == ExtractKeywords(query_lower)
        detected_domain == detect_domain(query_lower)
        scored == [i \in 1..Len(posts) |->
                     [score |-> ScorePost(query_lower, keywords, detected_domain,
                                          posts[i], at),
                      post |-> posts[i]]]
        kept == SelectSeq(scored, KeepPositive)
    IN SortDesc(kept)

\* The return as it would be without the slice.
CandidatesUncut(scored_posts) ==
    [i \in 1..Len(scored_posts) |-> scored_posts[i].post]

\* return [post for score, post in scored_posts[:50]]
CandidatesOf(scored_posts) ==
    LET top == Take(scored_posts, CandidateLimit)
    IN [i \in 1..Len(top) |-> top[i].post]

filter_and_score_posts(query, posts, at) ==
    CandidatesOf(RankerScored(query, posts, at))

FallbackLimit == 5

\* fallback_search up to its sort.
FallbackScored(query, posts) ==
    LET query_lower == Lower(query)
        keywords == ExtractKeywords(query_lower)
        detected_domain == detect_domain(query_lower)
        scored == [i \in 1..Len(posts) |->
                     [score |-> FallbackScorePost(query_lower, keywords,
                                                  detected_domain, posts[i]),
                      post |-> posts[i]]]
        kept == SelectSeq(scored, KeepPositive)
    IN SortDesc(kept)

(***************************************************************************)
(* json.loads on the model's text.  A parsed value is a record tagged t:   *)
(* "str" and "num" and "lit" carry their text s, "arr" its items, "obj"    *)
(* its keys and vals in the order read.  A parse is [ok, val, next], next  *)
(* the position behind the value; a failed one (ValueError) is Failed.     *)
(***************************************************************************)

Failed == [ok |-> FALSE]

Parsed(v, n) == [ok |-> TRUE, val |-> v, next |-> n]

At(s, i) == IF i >= 1 /\ i <= Len(s) THEN SubSeq(s, i, i) ELSE ""

RECURSIVE SkipWs(_, _)
SkipWs(s, i) == IF At(s, i) \in Whitespace THEN SkipWs(s, i + 1) ELSE i

RECURSIVE ParseStringBody(_, _, _)
\* The characters of a string from position i to its closing quote; acc is
\* what was read.  A raw control character ends the parse, \" \\ \/ stand
\* for the character, \n and \t for theirs.
ParseStringBody(s, i, acc) ==
    LET c == At(s, i) IN
    IF c = "" \/ c \in {"\t", "\n", "\r"} THEN Failed
    ELSE IF c = "\"" THEN Parsed([t |-> "str", s |-> acc], i + 1)
    ELSE IF c = "\\"
         THEN LET e == At(s, i + 1) IN
              IF e \in {"\"", "\\", "/"} THEN ParseStringBody(s, i + 2, acc \o e)
              ELSE IF e = "n" THEN ParseStringBody(s, i + 2, acc \o "\n")
              ELSE IF e = "t" THEN ParseStringBody(s, i + 2, acc \o "\t")
              ELSE Failed
    ELSE ParseStringBody(s, i + 1, acc \o c)

RECURSIVE DigitsEnd(_, _)
DigitsEnd(s, i) == IF At(s, i) \in Digits THEN DigitsEnd(s, i + 1) ELSE i

StartsWith(s, i, word) == SubSeq(s, i, i + Len(word) - 1) = word

\* Whether a number starts at position i, and the position behind it: an
\* optional "-", digits, and an optional "." with digits.
NumberAt(s, i) ==
    At(s, i) \in Digits \/ (At(s, i) = "-" /\ At(s, i + 1) \in Digits)

NumberEnd(s, i) ==
    LET e == DigitsEnd(s, IF At(s, i) = "-" THEN i + 1 ELSE i)
    IN IF At(s, e) = "." /\ At(s, e + 1) \in Digits THEN DigitsEnd(s, e + 1) ELSE e

RECURSIVE ParseValue(_, _)
RECURSIVE ParseElements(_, _, _)
RECURSIVE ParseMembers(_, _, _, _)

\* The items of an array after its "[" or a ",": value, then "," or "]".
ParseElements(s, i, items) ==
    LET v == ParseValue(s, i) IN
    IF ~v.ok THEN Failed
    ELSE LET j == SkipWs(s, v.next) IN
         IF At(s, j) = ","
         THEN ParseElements(s, j + 1, Append(items, v.val))
         ELSE IF At(s, j) = "]"
         THEN Parsed([t |-> "arr", items |-> Append(items, v.val)], j + 1)
         ELSE Failed

\* The members of an object after its "{" or a ",": "key" : value, then
\* "," or "}".
ParseMembers(s, i, keys, vals) ==
    LET a == SkipWs(s, i) IN
    IF At(s, a) # "\"" THEN Failed
    ELSE LET k == ParseStringBody(s, a + 1, "") IN
         IF ~k.ok THEN Failed
         ELSE LET b == SkipWs(s, k.next) IN
              IF At(s, b) # ":" THEN Failed
              ELSE LET v == ParseValue(s, b + 1) IN
                   IF ~v.ok THEN Failed
                   ELSE LET j == SkipWs(s, v.next) IN
                        IF At(s, j) = ","
                        THEN ParseMembers(s, j + 1, Append(keys, k.val.s),
                                          Append(vals, v.val))
                        ELSE IF At(s, j) = "}"
                        THEN Parsed([t |-> "obj", keys |-> Append(keys, k.val.s),
                                     vals |-> Append(vals, v.val)], j + 1)
                        ELSE Failed

\* One JSON value from position i on, leading whitespace skipped.
ParseValue(s, i) ==
    LET a == SkipWs(s, i)
        c == At(s, a)
    IN IF c = "\"" THEN ParseStringBody(s, a + 1, "")
       ELSE IF c = "{"
            THEN (IF At(s, SkipWs(s, a + 1)) = "}"
                  THEN Parsed([t |-> "obj", keys |-> <<>>, vals |-> <<>>],
                              SkipWs(s, a + 1) + 1)
                  ELSE ParseMembers(s, a + 1, <<>>, <<>>))
       ELSE IF c = "["
            THEN (IF At(s, SkipWs(s, a + 1)) = "]"
                  THEN Parsed([t |-> "arr", items |-> <<>>], SkipWs(s, a + 1) + 1)
                  ELSE ParseElements(s, a + 1, <<>>))
       ELSE IF NumberAt(s, a)
            THEN Parsed([t |-> "num", s |-> SubSeq(s, a, NumberEnd(s, a) - 1)],
                        NumberEnd(s, a))
       ELSE IF StartsWith(s, a, "null") THEN Parsed([t |-> "lit", s |-> "null"], a + 4)
       ELSE IF StartsWith(s, a, "true") THEN Parsed([t |-> "lit", s |-> "true"], a + 4)
       ELSE IF StartsWith(s, a, "false") THEN Parsed([t |-> "lit", s |-> "false"], a + 5)
       ELSE Failed

\* json.loads(text): one value and nothing but whitespace behind it.
json_loads(text) ==
    LET v == ParseValue(text, 1) IN
    IF v.ok /\ SkipWs(text, v.next) = Len(text) + 1 THEN v ELSE Failed

\* re.search(r'\{.*\}', text, re.DOTALL).group(): from the first "{" to the
\* last "}" of the text; "" when there is no match.
BraceMatch(text) ==
    LET opens == {i \in 1..Len(text) : SubSeq(text, i, i) = "{"}
        closes == {i \in 1..Len(text) : SubSeq(text, i, i) = "}"}
    IN IF opens = {} THEN ""
       ELSE LET first == CHOOSE i \in opens : \A j \in opens : i <= j
                after == {i \in closes : i > first}
            IN IF after = {} THEN ""
               ELSE SubSeq(text, first,
                           CHOOSE i \in after : \A j \in after : j <= i)

\* extract_json_from_text: the whole text, else the brace match, else None
\* (Failed).
extract_json_from_text(text) ==
    IF json_loads(text).ok THEN json_loads(text)
    ELSE IF BraceMatch(text) # "" THEN json_loads(BraceMatch(text))
    ELSE Failed

(***************************************************************************)
(* The two results of get_ai_recommendations.  The response text and the   *)
(* relevance reasons are JSON values: strings on the fallback path,        *)
(* whatever the model wrote on the generative path.                        *)
(***************************************************************************)

Str(text) == [t |-> "str", s |-> text]

\* The dict a recommendation is built as, in both paths.
Recommendation(post, reason) ==
    [post_id |-> Get(post, "post_id", ""),
     title |-> Get(post, "title", ""),
     summary |-> Get(post, "summary", ""),
     label |-> Get(post, "label", "Unknown"),
     url |-> Get(post, "url", ""),
     relevance_reason |-> reason]

\* fallback_search without its cut: top_posts = scored_posts
FallbackRecommendationsUncut(query, scored_posts) ==
    [i \in 1..Len(scored_posts) |->
        Recommendation(scored_posts[i].post,
            Str("Matches your search for \"" \o query \o "\" (relevance score: "
                \o ToString(scored_posts[i].score) \o ")"))]

\* top_posts = scored_posts[:5] and the recommendations built from them
FallbackRecommendations(query, scored_posts) ==
    LET top_posts == Take(scored_posts, FallbackLimit) IN
    [i \in 1..Len(top_posts) |->
        Recommendation(top_posts[i].post,
            Str("Matches your search for \"" \o query \o "\" (relevance score: "
                \o ToString(top_posts[i].score) \o ")"))]

FallbackText(query, recommendations) ==
    IF recommendations = <<>>
    THEN "I couldn't find posts specifically about '" \o query
         \o "', but you can browse all posts or try a different search term."
    ELSE "I found " \o ToString(Len(recommendations))
         \o " posts related to your query about " \o query \o "."

\* fallback_search from its sorted scored_posts on.
FallbackResult(query, scored_posts) ==
    LET recommendations == FallbackRecommendations(query, scored_posts)
    IN [response |-> Str(FallbackText(query, recommendations)),
        recommendations |-> recommendations]

fallback_search(query, posts) == FallbackResult(query, FallbackScored(query, posts))

\* bool(value) of a parsed JSON value
Truthy(v) ==
    CASE v.t = "obj" -> v.keys # <<>>
      [] v.t = "arr" -> v.items # <<>>
      [] v.t = "str" -> v.s # ""
      [] v.t = "num" -> ToNumber(v.s) # 0
      [] OTHER -> v.s = "true"

\* dict.get(key, default) on a parsed object: the last member of that name.
ObjGet(obj, key, default) ==
    LET at == {i \in 1..Len(obj.keys) : obj.keys[i] = key} IN
    IF at = {} THEN default
    ELSE obj.vals[CHOOSE i \in at : \A j \in at : j <= i]

JsonNull == [t |-> "lit", s |-> "null"]

\* next((p for p in all_posts if p.get('post_id') == post_id), None): the
\* positions of the posts with that id (a post without the key has None,
\* which only null equals).
PostsWithId(all_posts, post_id) ==
    {i \in 1..Len(all_posts) :
        IF "post_id" \in DOMAIN all_posts[i]
        THEN post_id.t = "str" /\ post_id.s = all_posts[i].post_id
        ELSE post_id = JsonNull}

AiLimit == 30
AiRecommendationLimit == 5

\* The slice as it would be without its bound: every entry is looked at.
SlicedRecommendationsUncut(ai_result) ==
    LET recs == ObjGet(ai_result, "recommendations", [t |-> "arr", items |-> <<>>])
    IN IF recs.t = "arr" THEN [ok |-> TRUE, items |-> recs.items]
       ELSE IF recs.t = "str" /\ recs.s = "" THEN [ok |-> TRUE, items |-> <<>>]
       ELSE [ok |-> FALSE]

\* ai_result.get('recommendations', [])[:5]: a list is cut, an empty string
\* stays empty, anything else cannot be sliced or holds no dicts.
SlicedRecommendations(ai_result) ==
    LET recs == ObjGet(ai_result, "recommendations", [t |-> "arr", items |-> <<>>])
    IN IF recs.t = "arr" THEN [ok |-> TRUE, items |-> Take(recs.items, AiRecommendationLimit)]
       ELSE IF recs.t = "str" /\ recs.s = "" THEN [ok |-> TRUE, items |-> <<>>]
       ELSE [ok |-> FALSE]

RECURSIVE Enrich(_, _, _)
\* The enrichment loop from the k-th entry on: an entry whose id names no
\* post adds nothing.
Enrich(items, k, all_posts) ==
    IF k > Len(items) THEN <<>>
    ELSE LET rec == items[k]
             found == PostsWithId(all_posts, ObjGet(rec, "post_id", JsonNull))
         IN (IF found = {} THEN <<>>
             ELSE <<Recommendation(
                       all_posts[CHOOSE i \in found : \A j \in found : i <= j],
                       ObjGet(rec, "relevance_reason", Str("Relevant to your query")))>>)
            \o Enrich(items, k + 1, all_posts)

\* Whether the try block of get_ai_recommendations raises on the text the
\* model returned: no JSON found or a falsy one, a value that is no dict, a
\* recommendations value that is no list, an entry that is no dict.
ParseRaises(ai_text) ==
    LET parsed == extract_json_from_text(ai_text) IN
    IF ~parsed.ok THEN TRUE
    ELSE IF ~Truthy(parsed.val) THEN TRUE
    ELSE IF parsed.val.t # "obj" THEN TRUE
    ELSE IF ~SlicedRecommendations(parsed.val).ok THEN TRUE
    ELSE \E k \in 1..Len(SlicedRecommendations(parsed.val).items) :
            SlicedRecommendations(parsed.val).items[k].t # "obj"

\* The return of the try block when nothing raised.
GenerativeResult(ai_text, all_posts) ==
    LET ai_result == extract_json_from_text(ai_text).val IN
    [response |-> ObjGet(ai_result, "response",
                         Str("Here are some posts that might help!")),
     recommendations |-> Enrich(SlicedRecommendations(ai_result).items, 1, all_posts)]

\* post_data: what of the candidates is sent to the model
SummaryLimit == 200

PostData(relevant_posts) ==
    LET sent == Take(relevant_posts, AiLimit) IN
    [i \in 1..Len(sent) |->
        [post_id |-> Get(sent[i], "post_id", ""),
         title |-> Get(sent[i], "title", ""),
         summary |-> Prefix(Get(sent[i], "summary", ""), SummaryLimit),
         label |-> Get(sent[i], "label", "Unknown"),
         tags |-> Get(sent[i], "tags", ""),
         authors |-> Get(sent[i], "authors", ""),
         url |-> Get(sent[i], "url", "")]]

(***************************************************************************)
(* The inputs of a request: the event, the table and the clock.            *)
(***************************************************************************)

\* The largest table taken in every order of its posts.
MaxCorpus == 2

MaxMessageLen == 500

\* The test as it would be with `len(user_message) >= 500`.
TooLongFromLimit(message) == Len(message) >= MaxMessageLen

\* if len(user_message) > 500
TooLong(message) == Len(message) > MaxMessageLen

RECURSIVE Repeat(_, _)
Repeat(text, n) == IF n = 0 THEN "" ELSE text \o Repeat(text, n - 1)

\* The day of the request: 2024-07-01.
Today == Ordinal(2024, 7, 1)

Nows == {[day |-> Today, after_midnight |-> b] : b \in BOOLEAN}

\* The posts of the table.  p1 and p6 differ in their date alone (10 and 200
\* days before the request); p3 has a title and a recent date and nothing
\* else; p4 has a date that is no date; p5 is dated 180 days before the
\* request.
PostList ==
    <<[post_id |-> "p1", title |-> "Getting Started with AppStream",
       summary |-> "A guide to application streaming",
       tags |-> "AppStream, Tutorial", content |-> "Set up your first fleet from a workspace",
       date_published |-> "2024-06-21T09:30:00Z", label |-> "Technical How-To",
       url |-> "https://hub/p1"],
      [post_id |-> "p2", title |-> "Amazon WorkSpaces Web pricing",
       summary |-> "What VDI costs", tags |-> "workspaces", content |-> "",
       date_published |-> "2023-12-14", label |-> "Announcement",
       url |-> "https://hub/p2"],
      [post_id |-> "p3", title |-> "Cooking pasta at home",
       date_published |-> "2024-06-25"],
      [post_id |-> "p4", title |-> "Gardening tips", summary |-> "", tags |-> "",
       content |-> "", date_published |-> "last week", label |-> "Curation",
       url |-> "https://hub/p4"],
      [post_id |-> "p5", title |-> "appstream", summary |-> "guide",
       tags |-> "dcv", content |-> "fleet management",
       date_published |-> "2024-01-03", url |-> "https://hub/p5"],
      [post_id |-> "p6", title |-> "Getting Started with AppStream",
       summary |-> "A guide to application streaming",
       tags |-> "AppStream, Tutorial", content |-> "Set up your first fleet from a workspace",
       date_published |-> "2023-12-14", label |-> "Technical How-To",
       url |-> "https://hub/p6"]>>

\* A post whose content has the word "pricing" behind its first 1000
\* characters, and nothing else a query of Messages matches.
LongPost ==
    [post_id |-> "p7", title |-> "Fleet sizing", summary |-> "", tags |-> "",
     content |-> "fleet " \o Repeat("lorem ipsum ", 83) \o "pricing",
     date_published |-> "2023-12-14", label |-> "Best Practices",
     url |-> "https://hub/p7"]

\* The sequences of at most n different posts of PostList.
RECURSIVE Tables(_)
Tables(n) ==
    IF n = 0 THEN {<<>>}
    ELSE LET shorter == Tables(n - 1) IN
         shorter \cup
         {Append(t, PostList[i]) : t \in {u \in shorter : Len(u) = n - 1},
                                   i \in 1..Len(PostList)}

Distinct(table) ==
    \A i, j \in 1..Len(table) : i # j => table[i].post_id # table[j].post_id

\* A table of n posts: PostList over and over, every post under an id of
\* its own.
LongTable(n) ==
    [i \in 1..n |->
        LET post == PostList[((i - 1) % Len(PostList)) + 1] IN
        [post EXCEPT !.post_id = post.post_id \o "-" \o ToString(i)]]

\* The tables of a request: every order of up to MaxCorpus posts, PostList
\* twice over, a table of twice the Ranker's cut, and two with LongPost.
TableContents ==
    {t \in Tables(MaxCorpus) : Distinct(t)}
    \cup {LongTable(2 * Len(PostList)), LongTable(2 * CandidateLimit)}
    \cup {<<LongPost>>, <<PostList[2], LongPost>>}

\* The messages of a request, as the body carries them.
Messages ==
    {"how do I set up AppStream",
     "random unrelated topic xyz",
     "Workspaces Web pricing",
     "appstream",
     "  NICE DCV \n",
     "   ",
     Repeat("appstream ", 50) \o "!"}

\* The bodies of a request: every message without a conversation_id, and
\* two with one.
Events ==
    {[message |-> m, conversation_id |-> ""] : m \in Messages}
    \cup {[message |-> "appstream", conversation_id |-> "conv-7"],
          [message |-> "   ", conversation_id |-> "conv-7"]}

\* What bedrock.invoke_model and the reading of its body end in: an
\* exception, or the text of the model.
AiTexts ==
    {"Here you go: {\"response\":\"ok\",\"recommendations\":[{\"post_id\":\"p1\",\"relevance_reason\":\"x\"}]}",
     "Sorry, I cannot help with that.",
     "{}",
     "{\"response\": \"Try these\", \"recommendations\": null}",
     "{\"response\": \"Two\", \"recommendations\": [{\"post_id\": \"p3\"}, {\"post_id\": \"nope\"}, {\"post_id\": \"p2\", \"relevance_reason\": \"costs\"}]} I hope {this} helps",
     "{\"recommendations\": [{\"relevance_reason\": \"x\"}, {\"post_id\": \"p1\"}]}",
     "{\"response\":\"Seven\",\"recommendations\":[{\"post_id\":\"p1-1\"},{\"post_id\":\"nope\"},{\"post_id\":\"p2-2\"},{\"post_id\":\"p3-3\"},{\"post_id\":\"p4-4\"},{\"post_id\":\"p5-5\"},{\"post_id\":\"p6-6\"}]}"}

\* The texts that also arrive late.
LateTexts ==
    {"Here you go: {\"response\":\"ok\",\"recommendations\":[{\"post_id\":\"p1\",\"relevance_reason\":\"x\"}]}"}

\* invoke_model is called without a timeout of the handler's own and
\* returns when the client returns: within the few seconds a timeout
\* would give it, or after them.
AiReplies ==
    {[kind |-> "raise", text |-> "", after_timeout |-> late] : late \in BOOLEAN}
    \cup {[kind |-> "text", text |-> t, after_timeout |-> FALSE] : t \in AiTexts}
    \cup {[kind |-> "text", text |-> t, after_timeout |-> TRUE] : t \in LateTexts}

NoReply == [kind |-> "none", text |-> "", after_timeout |-> FALSE]

\* The replies with a text on which the try block raises, and those with a
\* text it returns from.
UnusableReplies == {r \in AiReplies : r.kind = "text" /\ ParseRaises(r.text)}
UsableReplies == {r \in AiReplies : r.kind = "text" /\ ~ParseRaises(r.text)}

NoResult == [response |-> Str(""), recommendations |-> <<>>]

(***************************************************************************)
(* One request through lambda_handler.                                     *)
(***************************************************************************)

VARIABLES
    event,            \* the body of the event: message and conversation_id
    table_items,      \* the posts of the table, in scan order
    now,              \* datetime.now() of the request
    pc,               \* where the handler is
    user_message,     \* body.get('message', '').strip()
    scan_failed,      \* whether a table.scan of get_all_posts raised
    all_posts,        \* what get_all_posts returned
    keywords,         \* the keywords of filter_and_score_posts
    scored_posts,     \* the sorted scored_posts of filter_and_score_posts
    relevant_posts,   \* what filter_and_score_posts returned
    post_data,        \* what of the candidates the prompt carries
    model_calls,      \* the bedrock.invoke_model calls of the request
    ai_reply,         \* what the model call ended in
    fallback_posts,   \* the posts fallback_search was called with
    fallback_keywords,\* the keywords of fallback_search
    fallback_scored,  \* the sorted scored_posts of fallback_search
    path,             \* the branch that built the result
    result,           \* what get_ai_recommendations returned
    response          \* what lambda_handler returned

\* One run of BuilderAWSCrawler.
VARIABLES
    builder_table,                 \* the items of the crawler's table, by post_id
    posts_processed,               \* self.posts_processed
    posts_updated,                 \* self.posts_updated
    posts_created,                 \* self.posts_created
    posts_needing_summaries,       \* self.posts_needing_summaries
    posts_needing_classification,  \* self.posts_needing_classification
    changed_post_ids,              \* self.changed_post_ids
    save_returns                   \* what the save_to_dynamodb calls returned

\* The REST facade: votes, comments and profiles.
VARIABLES
    posts_table,      \* the items of the posts table, by post_id
    profiles,         \* the user_ids of the items of the profiles table
    votes_in_flight,  \* the vote_on_post requests between get_item and update_item
    api_calls,        \* the requests the facade has taken
    last_response     \* what the last handler to return has returned

\* One moderate_comment call of add_comment and its call_bedrock thread.
VARIABLES
    mod_pc,             \* where add_comment and moderate_comment are
    thread_pc,          \* where the call_bedrock thread is
    mod_result,         \* the dict result: response and completed
    moderation_reply,   \* what invoke_model ended in for the thread
    wait_expired,       \* whether thread.join(timeout=2.0) returned on the timeout
    reply_after_wait,   \* whether invoke_model ended after that timeout
    timeout_logged,     \* whether the timeout message was printed
    moderation_result   \* what moderate_comment returned to add_comment

\* The summary generator and the crawler handler that invokes it.
VARIABLES
    blog_table,               \* the items of the table the generator reads, by post_id
    summaries_needed,         \* aws_blog_summaries_needed of the crawler handler
    summary_batches_invoked,  \* results['summary_batches_invoked'], -1 before
    runs,                     \* the invocations of the generator, each with where it is
    summary_writes            \* by post_id, the runs whose update_item stored a summary

\* AWSBlogCrawler.crawl_all_posts, its loop over the listing pages.
VARIABLES
    listing                   \* the site, the locals of the loop and the calls of get_page

chat_vars == <<event, table_items, now, pc, user_message, scan_failed, all_posts,
               keywords, scored_posts, relevant_posts, post_data, model_calls,
               ai_reply, fallback_posts, fallback_keywords, fallback_scored, path,
               result, response>>

crawl_vars == <<builder_table, posts_processed, posts_updated, posts_created,
                posts_needing_summaries, posts_needing_classification,
                changed_post_ids, save_returns>>

api_vars == <<posts_table, profiles, votes_in_flight, api_calls, last_response>>

moderation_vars == <<mod_pc, thread_pc, mod_result, moderation_reply, wait_expired,
                      reply_after_wait, timeout_logged, moderation_result>>

summary_vars == <<blog_table, summaries_needed, summary_batches_invoked, runs,
                   summary_writes>>

listing_vars == <<listing>>

vars == <<chat_vars, crawl_vars, api_vars, moderation_vars, summary_vars, listing_vars>>

\* What a chat request, a crawl and the facade each leave alone.
outside_chat == <<crawl_vars, api_vars, moderation_vars, summary_vars, listing_vars>>

outside_crawl == <<chat_vars, api_vars, moderation_vars, summary_vars, listing_vars>>

outside_api == <<chat_vars, crawl_vars, moderation_vars, summary_vars, listing_vars>>

\* What moderate_comment and its thread leave alone; the comment goes to
\* the posts table.
outside_moderation == <<chat_vars, crawl_vars, profiles, votes_in_flight, api_calls,
                        last_response, summary_vars, listing_vars>>

outside_summary == <<chat_vars, crawl_vars, api_vars, moderation_vars, listing_vars>>

outside_listing == <<chat_vars, crawl_vars, api_vars, moderation_vars, summary_vars>>

\* BuilderAWSCrawler.__init__: every counter 0, no changed post.
Constructed ==
    /\ posts_processed = 0
    /\ posts_updated = 0
    /\ posts_created = 0
    /\ posts_needing_summaries = 0
    /\ posts_needing_classification = 0
    /\ changed_post_ids = <<>>
    /\ save_returns = <<>>

NoResponse == [statusCode |-> 0]

\* The handler before its first statement.
Started ==
    /\ pc = "start"
    /\ user_message = ""
    /\ scan_failed = FALSE
    /\ all_posts = <<>>
    /\ keywords = <<>>
    /\ scored_posts = <<>>
    /\ relevant_posts = <<>>
    /\ post_data = <<>>
    /\ model_calls = 0
    /\ ai_reply = NoReply
    /\ fallback_posts = <<>>
    /\ fallback_keywords = <<>>
    /\ fallback_scored = <<>>
    /\ path = "none"
    /\ result = NoResult
    /\ response = NoResponse

\* No crawl runs beside the request: an empty table, a crawler just
\* constructed.
NoCrawl ==
    /\ builder_table = <<>>
    /\ Constructed

\* What a handler of the facade returns: the handler and the statusCode,
\* and for some the body.
Answer(op, statusCode) ==
    [op |-> op, statusCode |-> statusCode]

\* The facade has taken no request.
NoApiCall ==
    /\ votes_in_flight = <<>>
    /\ api_calls = 0
    /\ last_response = Answer("none", 0)

\* No request reaches the facade: empty tables.
NoApi ==
    /\ posts_table = <<>>
    /\ profiles = {}
    /\ NoApiCall

\* moderate_comment's default_response and the dict result it starts with.
DefaultResponse ==
    [status |-> "approved", reason |-> "(None)", confidence |-> 0,
     timestamp |-> "moderate_comment"]

\* Before thread.start(), with the comment of the given caller to moderate;
\* "idle" when no comment is moderated.
Unmoderated(position) ==
    /\ mod_pc = position
    /\ thread_pc = "none"
    /\ mod_result = [response |-> DefaultResponse, completed |-> FALSE]
    /\ moderation_reply = [kind |-> "none", text |-> ""]
    /\ wait_expired = FALSE
    /\ reply_after_wait = FALSE
    /\ timeout_logged = FALSE
    /\ moderation_result = "(None)"

NoModeration == Unmoderated("idle")

\* No generator runs and none was invoked.
NoRuns ==
    /\ summary_batches_invoked = -1
    /\ runs = <<>>

\* No summary is to be generated: an empty table, nothing flagged.
NoSummaries ==
    /\ blog_table = <<>>
    /\ summaries_needed = 0
    /\ summary_writes = <<>>
    /\ NoRuns

\* max_pages of crawl_all_posts: None, or a number.
MaxPagesNone == [given |-> FALSE, pages |-> 0]

\* crawl_all_posts has not been called; next_page is the site.
NotListing(next_page) ==
    [pc |-> "idle", next_page |-> next_page, max_pages |-> MaxPagesNone,
     current_url |-> "(None)", page_num |-> 0, visited_pages |-> {},
     get_page_calls |-> <<>>, fetched_pages |-> {}, failed_page |-> "(None)"]

NoListing == listing = NotListing(<<>>)

Init ==
    /\ event \in Events
    /\ table_items \in TableContents
    /\ now \in Nows
    /\ Started
    /\ NoCrawl
    /\ NoApi
    /\ NoModeration
    /\ NoSummaries
    /\ NoListing

\* lambda_handler, the request is read and validated: an empty or a too
\* long message is answered 400.
Validate ==
    /\ pc = "start"
    /\ user_message' = Strip(event.message)
    /\ IF user_message' = ""
       THEN /\ pc' = "done"
            /\ path' = "rejected"
            /\ response' = [statusCode |-> 400, error |-> "Message is required"]
       ELSE IF TooLong(user_message')
       THEN /\ pc' = "done"
            /\ path' = "rejected"
            /\ response' = [statusCode |-> 400,
                            error |-> "Message too long (max 500 characters)"]
       ELSE /\ pc' = "validated"
            /\ UNCHANGED <<path, response>>
    /\ UNCHANGED <<event, table_items, now, all_posts, scored_posts,
                   relevant_posts, post_data, model_calls, ai_reply, fallback_posts,
                   fallback_scored, result>>
    /\ UNCHANGED <<scan_failed, keywords, fallback_keywords, outside_chat>>

\* get_all_posts: every page of the scan, or [] when a scan raised.
GetAllPosts ==
    /\ pc = "validated"
    /\ \E scan_raises \in BOOLEAN :
          /\ scan_failed' = scan_raises
          /\ all_posts' = IF scan_raises THEN <<>> ELSE table_items
    /\ pc' = "fetched"
    /\ UNCHANGED <<keywords, fallback_keywords, outside_chat>>
    /\ UNCHANGED <<event, table_items, now, user_message, scored_posts,
                   relevant_posts, post_data, model_calls, ai_reply, fallback_posts,
                   fallback_scored, path, result, response>>

\* relevant_posts = filter_and_score_posts(user_message, all_posts)
Rank ==
    /\ pc = "fetched"
    /\ keywords' = ExtractKeywords(Lower(user_message))
    /\ scored_posts' = RankerScored(user_message, all_posts, now)
    /\ relevant_posts' = CandidatesOf(scored_posts')
    /\ pc' = "ranked"
    /\ UNCHANGED <<event, table_items, now, user_message, all_posts,
                   post_data, model_calls, ai_reply, fallback_posts,
                   fallback_scored, path, result, response>>
    /\ UNCHANGED <<scan_failed, fallback_keywords, outside_chat>>

\* get_ai_recommendations with no relevant posts: the fallback over all
\* posts, and no model call.
NoRelevantPosts ==
    /\ pc = "ranked"
    /\ relevant_posts = <<>>
    /\ fallback_posts' = all_posts
    /\ fallback_keywords' = ExtractKeywords(Lower(user_message))
    /\ \E scored \in {FallbackScored(user_message, all_posts)} :
          /\ fallback_scored' = scored
          /\ result' = FallbackResult(user_message, scored)
    /\ path' = "fallback"
    /\ pc' = "answered"
    /\ UNCHANGED <<event, table_items, now, user_message, all_posts,
                   scored_posts, relevant_posts, post_data, model_calls, ai_reply, response>>
    /\ UNCHANGED <<scan_failed, keywords, outside_chat>>

\* The guard of the model call as it would be without the early return of
\* get_ai_recommendations.
CallsModelAlways == TRUE

\* if not relevant_posts: return fallback_search(...) is not taken
CallsModel == relevant_posts # <<>>

\* get_ai_recommendations with relevant posts, up to the model call.
InvokeModel ==
    /\ pc = "ranked"
    /\ CallsModel
    /\ post_data' = PostData(relevant_posts)
    /\ model_calls' = model_calls + 1
    /\ pc' = "calling"
    /\ UNCHANGED <<event, table_items, now, user_message, all_posts,
                   scored_posts, relevant_posts, ai_reply, fallback_posts,
                   fallback_scored, path, result, response>>
    /\ UNCHANGED <<scan_failed, keywords, fallback_keywords, outside_chat>>

\* The except branch as it would be with the fallback over all posts.
ExceptPostsAll == all_posts

\* relevant_posts if relevant_posts else all_posts
ExceptPosts == IF relevant_posts # <<>> THEN relevant_posts ELSE all_posts

\* The except branch: fallback_search(user_message,
\*     relevant_posts if relevant_posts else all_posts)
ExceptFallback(reply) ==
    /\ ai_reply' = reply
    /\ fallback_posts' = ExceptPosts
    /\ fallback_keywords' = ExtractKeywords(Lower(user_message))
    /\ \E scored \in {FallbackScored(user_message, ExceptPosts)} :
          /\ fallback_scored' = scored
          /\ result' = FallbackResult(user_message, scored)
    /\ path' = "fallback"

\* The model call raises.
ModelRaises ==
    /\ pc = "calling"
    /\ \E reply \in {r \in AiReplies : r.kind = "raise"} : ExceptFallback(reply)
    /\ pc' = "answered"
    /\ UNCHANGED <<event, table_items, now, user_message, all_posts,
                   scored_posts, relevant_posts, post_data, model_calls, response>>
    /\ UNCHANGED <<scan_failed, keywords, outside_chat>>

\* The model call returns a text in which no usable JSON is found, or whose
\* use raises.
ModelReturnsUnusable ==
    /\ pc = "calling"
    /\ \E reply \in UnusableReplies : ExceptFallback(reply)
    /\ pc' = "answered"
    /\ UNCHANGED <<event, table_items, now, user_message, all_posts,
                   scored_posts, relevant_posts, post_data, model_calls, response>>
    /\ UNCHANGED <<scan_failed, keywords, outside_chat>>

\* The identifiers looked up among the candidates of the request.
LookedUpAmongCandidates == relevant_posts

\* The posts the identifiers of the model are looked up in: all_posts.
LookedUp == all_posts

\* The model call returns a text whose JSON is used.
ModelReturnsUsable ==
    /\ pc = "calling"
    /\ \E reply \in UsableReplies :
          /\ ai_reply' = reply
          /\ result' = GenerativeResult(reply.text, LookedUp)
    /\ path' = "generative"
    /\ pc' = "answered"
    /\ UNCHANGED <<event, table_items, now, user_message, all_posts,
                   scored_posts, relevant_posts, post_data, model_calls, fallback_posts,
                   fallback_scored, response>>
    /\ UNCHANGED <<scan_failed, keywords, fallback_keywords, outside_chat>>

GeneratedIds == {"uuid-1"}

\* result['conversation_id'] = conversation_id; create_response(200, result)
Respond ==
    /\ pc = "answered"
    /\ \E generated \in GeneratedIds :
          response' = [statusCode |-> 200,
                       response |-> result.response,
                       recommendations |-> result.recommendations,
                       conversation_id |->
                           IF event.conversation_id # ""
                           THEN event.conversation_id ELSE generated]
    /\ pc' = "done"
    /\ UNCHANGED <<event, table_items, now, user_message, all_posts,
                   scored_posts, relevant_posts, post_data, model_calls, ai_reply,
                   fallback_posts, fallback_scored, path, result>>
    /\ UNCHANGED <<scan_failed, keywords, fallback_keywords, outside_chat>>

Next ==
    \/ Validate
    \/ GetAllPosts
    \/ Rank
    \/ NoRelevantPosts
    \/ InvokeModel
    \/ ModelRaises
    \/ ModelReturnsUnusable
    \/ ModelReturnsUsable
    \/ Respond

Spec == Init /\ [][Next]_vars

(***************************************************************************)
(* Requests told apart by their message: messages of every length around   *)
(* the limit, bare and padded, and queries of a few words, over a table    *)
(* without a post that matches them.                                       *)
(***************************************************************************)

\* How far over the limit the messages go.
MaxOver == 2

\* The most words of a query.
MaxWords == 2

\* A text of 520 characters, of which the messages are the beginnings.
LongText == Repeat(Repeat("?", 26), 20)

LengthMessages ==
    LET bare == {SubSeq(LongText, 1, n) :
                    n \in {0, 1} \cup ((MaxMessageLen - 1)..(MaxMessageLen + MaxOver))}
    IN bare \cup {"  " \o m \o " \n" : m \in bare}

QueryWords == {"The", "AppStream", "vdi", "up", "v2_0"}

QuerySeparators == {" ", "-"}

\* The queries of exactly n words.
RECURSIVE QueriesOf(_)
QueriesOf(n) ==
    IF n = 1 THEN QueryWords
    ELSE {q \o sep \o w : q \in QueriesOf(n - 1), sep \in QuerySeparators, w \in QueryWords}

Queries == UNION {QueriesOf(n) : n \in 1..MaxWords}

MessageEvents ==
    {[message |-> m, conversation_id |-> c] : m \in LengthMessages, c \in {"", "conv-7"}}
    \cup {[message |-> m, conversation_id |-> ""] : m \in Queries}

InitMessages ==
    /\ event \in MessageEvents
    /\ table_items \in {<<>>, <<PostList[4]>>}
    /\ now = [day |-> Today, after_midnight |-> TRUE]
    /\ Started
    /\ NoCrawl
    /\ NoApi
    /\ NoModeration
    /\ NoSummaries
    /\ NoListing

\* No post of these tables is a candidate, so the model is not called.
NextMessages ==
    \/ Validate
    \/ GetAllPosts
    \/ Rank
    \/ NoRelevantPosts
    \/ Respond

SpecMessages == InitMessages /\ [][NextMessages]_vars

(***************************************************************************)
(* One run of BuilderAWSCrawler: save_to_dynamodb, call after call.        *)
(***************************************************************************)

\* The save_to_dynamodb calls of a run.
MaxSaves == 2

\* The attributes of an item of the table; an attribute the item has not
\* is Absent.
Absent == "(absent)"

ItemAttributes ==
    {"url", "title", "authors", "date_published", "date_updated", "tags",
     "content", "last_crawled", "summary", "label", "label_confidence",
     "label_generated", "source"}

NoAttributes == [a \in ItemAttributes |-> Absent]

\* datetime.utcnow().isoformat() of the run
CrawlTime == "2024-07-01T00:00:00"

\* extract_metadata_from_sitemap(url, lastmod), the title given.
MetadataOf(url, title, lastmod) ==
    [url |-> url, title |-> title, authors |-> "AWS Builder Community",
     date_published |-> lastmod, date_updated |-> lastmod,
     tags |-> "End User Computing, Builder.AWS",
     content |-> "Builder.AWS article. Visit the full article on Builder.AWS for detailed information and insights.",
     source |-> "builder.aws.com"]

\* The articles of the sitemap: two urls, one with a slash at its end, each
\* with one of two lastmod dates.
Articles ==
    {MetadataOf("https://builder.aws.com/articles/alpha", "Alpha", d) :
        d \in {"2024-01-15", "2024-01-20"}}
    \cup {MetadataOf("https://builder.aws.com/articles/beta/", "Beta", d) :
             d \in {"2024-01-15", "2024-01-20"}}

\* url.split('/'): the k-th part lies between the (k-1)-th and the k-th
\* slash of the url.
SplitSlash(url) ==
    LET slashes == {i \in 1..Len(url) : SubSeq(url, i, i) = "/"}
        cut(k) == IF k = 0 THEN 0
                  ELSE IF k > Cardinality(slashes) THEN Len(url) + 1
                  ELSE CHOOSE i \in slashes : Cardinality({x \in slashes : x < i}) = k - 1
    IN [k \in 1..(Cardinality(slashes) + 1) |-> SubSeq(url, cut(k - 1) + 1, cut(k) - 1)]

\* post_id = f"builder-{...}": the last part of the url, or the one before
\* it when the url ends with a slash.
BuilderPostId(url) ==
    LET parts == SplitSlash(url)
        ends_with_slash == Len(url) > 0 /\ SubSeq(url, Len(url), Len(url)) = "/"
    IN "builder-" \o (IF ends_with_slash THEN parts[Len(parts) - 1] ELSE parts[Len(parts)])

\* The SET of a changed or new article: every field of the metadata, and
\* summary and label empty.
ChangedUpdate(item, metadata) ==
    [item EXCEPT !.url = metadata.url,
                 !.title = metadata.title,
                 !.authors = metadata.authors,
                 !.date_published = metadata.date_published,
                 !.date_updated = metadata.date_updated,
                 !.tags = metadata.tags,
                 !.content = metadata.content,
                 !.last_crawled = CrawlTime,
                 !.summary = "",
                 !.label = "",
                 !.label_confidence = "0",
                 !.label_generated = "",
                 !.source = metadata.source]

\* if_not_exists(attribute, value)
IfNotExists(item, attribute, value) ==
    IF item[attribute] = Absent THEN value ELSE item[attribute]

\* An update of an unchanged article that sets what the update of a changed
\* one sets.
UnchangedUpdateClearing(item, metadata) ==
    ChangedUpdate(item, metadata)

\* The SET of an unchanged article: summary and label are not in it.
UnchangedUpdate(item, metadata) ==
    [item EXCEPT !.url = metadata.url,
                 !.title = metadata.title,
                 !.date_published = IfNotExists(item, "date_published", metadata.date_published),
                 !.date_updated = metadata.date_updated,
                 !.tags = metadata.tags,
                 !.last_crawled = CrawlTime,
                 !.source = metadata.source,
                 !.authors = IfNotExists(item, "authors", metadata.authors),
                 !.content = IfNotExists(item, "content", metadata.content)]

\* table.update_item(Key={'post_id': post_id}, ...): the item is made when
\* the table has none under the key.
UpdateItem(items, post_id, content_changed, metadata) ==
    LET item == IF post_id \in DOMAIN items THEN items[post_id] ELSE NoAttributes
        updated == IF content_changed THEN ChangedUpdate(item, metadata)
                   ELSE UnchangedUpdate(item, metadata)
    IN [id \in DOMAIN items \cup {post_id} |->
           IF id = post_id THEN updated ELSE items[id]]

\* An item as an earlier crawl left it, with a summary.
StoredItem(metadata, date_updated) ==
    [ChangedUpdate(NoAttributes, metadata) EXCEPT
        !.date_updated = date_updated, !.summary = "Old summary",
        !.label = "Announcement", !.label_confidence = "0.9",
        !.label_generated = "2024-06-01T00:00:00",
        !.last_crawled = "2024-06-01T00:00:00"]

\* The tables a run starts with: empty, with the first article as the
\* sitemap dated it before, and with it as legacy data without date_updated.
BuilderTables ==
    LET alpha == MetadataOf("https://builder.aws.com/articles/alpha", "Alpha", "2024-01-15")
    IN {<<>>,
        [id \in {"builder-alpha"} |-> StoredItem(alpha, "2024-01-15")],
        [id \in {"builder-alpha"} |-> StoredItem(alpha, Absent)]}

\* No request runs beside the crawl.
NoRequest ==
    /\ event = [message |-> "", conversation_id |-> ""]
    /\ table_items = <<>>
    /\ now = [day |-> Today, after_midnight |-> TRUE]
    /\ Started

InitCrawl ==
    /\ NoRequest
    /\ builder_table \in BuilderTables
    /\ Constructed
    /\ NoApi
    /\ NoModeration
    /\ NoSummaries
    /\ NoListing

\* content_changed as save_to_dynamodb sets it: an item that get_item
\* returned and whose date_updated is the lastmod of the sitemap is
\* unchanged, everything else (no item, a raising get_item, an item
\* without date_updated or with another one) is changed.
ItemFound(items, post_id, get_raises) ==
    ~get_raises /\ post_id \in DOMAIN items

\* A change detection that takes an item without date_updated for unchanged.
ContentChangedWhenDated(items, metadata, get_raises) ==
    LET post_id == BuilderPostId(metadata.url)
    IN IF ItemFound(items, post_id, get_raises)
       THEN /\ items[post_id].date_updated # Absent
            /\ items[post_id].date_updated # metadata.date_updated
       ELSE TRUE

ContentChanged(items, metadata, get_raises) ==
    LET post_id == BuilderPostId(metadata.url)
        old_date == IF items[post_id].date_updated # Absent
                    THEN items[post_id].date_updated ELSE ""
    IN IF ItemFound(items, post_id, get_raises)
       THEN old_date # metadata.date_updated
       ELSE TRUE

\* BuilderAWSCrawler.save_to_dynamodb(metadata): get_item and update_item
\* each return or raise.
save_to_dynamodb(metadata, get_raises, update_raises) ==
    LET post_id == BuilderPostId(metadata.url)
        exists == ItemFound(builder_table, post_id, get_raises)
        content_changed == ContentChanged(builder_table, metadata, get_raises)
    IN /\ posts_updated' = IF exists THEN posts_updated + 1 ELSE posts_updated
       /\ posts_created' = IF exists THEN posts_created ELSE posts_created + 1
       /\ changed_post_ids' = IF content_changed
                              THEN Append(changed_post_ids, post_id)
                              ELSE changed_post_ids
       /\ posts_needing_summaries' =
             IF content_changed THEN posts_needing_summaries + 1
             ELSE posts_needing_summaries
       /\ posts_needing_classification' =
             IF content_changed THEN posts_needing_classification + 1
             ELSE posts_needing_classification
       /\ IF update_raises
          THEN /\ save_returns' = Append(save_returns, FALSE)
               /\ UNCHANGED <<builder_table, posts_processed>>
          ELSE /\ builder_table' = UpdateItem(builder_table, post_id,
                                              content_changed, metadata)
               /\ posts_processed' = posts_processed + 1
               /\ save_returns' = Append(save_returns, TRUE)
       /\ UNCHANGED outside_crawl

\* The calls of a run, one after the other.
SaveToDynamoDB ==
    /\ Len(save_returns) < MaxSaves
    /\ \E metadata \in Articles, get_raises \in BOOLEAN, update_raises \in BOOLEAN :
          save_to_dynamodb(metadata, get_raises, update_raises)

NextCrawl == SaveToDynamoDB

SpecCrawl == InitCrawl /\ [][NextCrawl]_vars

(***************************************************************************)
(* The REST facade: vote_on_post, add_comment, get_comments and            *)
(* delete_user_profile over the posts table and the profiles table.        *)
(***************************************************************************)

\* The requests the facade takes.
MaxApiCalls == 3

\* Python's None: a key a dict has not, a claim a token has not.
PyNone == "(None)"

Users == {"u1", "u2"}

\* decoded_token.get('sub') of the tokens validate_jwt_token accepts: a
\* user, or None for a token without the claim.
Subs == Users \cup {PyNone}

\* The items of the posts table, in the order table.scan returns them.
ScanOrder == <<"a", "b">>

\* The ids the path of a request may carry: the posts and one that is none.
PathIds == {"a", "b", "gone"}

\* A comment as add_comment or older code stored it: the keys the handlers
\* read.
CommentOf(voter_id, user_id, moderation_status) ==
    [voter_id |-> voter_id, user_id |-> user_id,
     moderation_status |-> moderation_status]

\* An item of the posts table: the attributes the handlers read with a
\* default ([] or 0) hold the default when the item has them not.
PostItem(comments) ==
    [lovers |-> <<>>, voters |-> <<>>,
     love_votes |-> 0, needs_update_votes |-> 0, remove_post_votes |-> 0,
     love_voters |-> <<>>, needs_update_voters |-> <<>>, remove_post_voters |-> <<>>,
     comments |-> comments, comment_count |-> Len(comments)]

\* The tables the facade starts with: no comment anywhere, or comments of
\* older code on both posts (no moderation_status; the author under voter_id
\* or under user_id).
PostsTables ==
    {[id \in {"a", "b"} |-> PostItem(<<>>)],
     [id \in {"a", "b"} |->
        IF id = "a" THEN PostItem(<<CommentOf("u1", PyNone, PyNone)>>)
        ELSE PostItem(<<CommentOf(PyNone, "u1", PyNone)>>)]}

InitApi ==
    /\ NoRequest
    /\ NoCrawl
    /\ posts_table \in PostsTables
    /\ profiles = Users
    /\ NoApiCall
    /\ NoModeration
    /\ NoSummaries
    /\ NoListing

\* A request with the token and the body it carries: the sub of the token
\* (the token validated) and the voter_id of the body.
Callers ==
    {[sub |-> u, voter_id |-> u] : u \in Subs}
    \cup {[sub |-> "u1", voter_id |-> "u2"]}

VoteTypes == {"needs_update", "remove_post", "love"}

Member(x, list) == \E i \in 1..Len(list) : list[i] = x

\* vote_on_post up to its update_item: the checks of the body, get_item,
\* and the test of the list the vote goes to.
VoteCheck ==
    /\ api_calls < MaxApiCalls
    /\ api_calls' = api_calls + 1
    /\ \E caller \in Callers, post_id \in PathIds, vote_type \in VoteTypes \cup {"like"} :
          IF caller.voter_id # caller.sub
          THEN /\ last_response' = Answer("vote_on_post", 403)
               /\ UNCHANGED votes_in_flight
          ELSE IF vote_type \notin VoteTypes
          THEN /\ last_response' = Answer("vote_on_post", 400)
               /\ UNCHANGED votes_in_flight
          ELSE IF post_id \notin DOMAIN posts_table
          THEN /\ last_response' = Answer("vote_on_post", 404)
               /\ UNCHANGED votes_in_flight
          ELSE IF Member(caller.voter_id,
                         IF vote_type = "love" THEN posts_table[post_id].lovers
                         ELSE posts_table[post_id].voters)
          THEN /\ last_response' = Answer("vote_on_post", 400)
               /\ UNCHANGED votes_in_flight
          ELSE /\ votes_in_flight' =
                     Append(votes_in_flight,
                            [voter_id |-> caller.voter_id, post_id |-> post_id,
                             vote_type |-> vote_type])
               /\ UNCHANGED last_response
    /\ UNCHANGED <<posts_table, profiles, outside_api>>

\* The update_item of a vote: the count plus one, the voter appended.
VoteUpdateItem(item, voter_id, vote_type) ==
    IF vote_type = "love"
    THEN [item EXCEPT !.love_votes = @ + 1, !.lovers = Append(@, voter_id)]
    ELSE IF vote_type = "needs_update"
    THEN [item EXCEPT !.needs_update_votes = @ + 1, !.voters = Append(@, voter_id)]
    ELSE [item EXCEPT !.remove_post_votes = @ + 1, !.voters = Append(@, voter_id)]

Without(list, i) == SubSeq(list, 1, i - 1) \o SubSeq(list, i + 1, Len(list))

\* vote_on_post from its update_item on: the update and the 200.
VoteUpdate ==
    /\ \E i \in 1..Len(votes_in_flight) :
          LET vote == votes_in_flight[i]
          IN /\ posts_table' =
                   [posts_table EXCEPT ![vote.post_id] =
                       VoteUpdateItem(@, vote.voter_id, vote.vote_type)]
             /\ votes_in_flight' = Without(votes_in_flight, i)
    /\ last_response' = Answer("vote_on_post", 200)
    /\ UNCHANGED <<profiles, api_calls, outside_api>>

ModerationStatuses == {"approved", "pending_review"}

\* add_comment: the checks of the body, get_item, moderate_comment (either
\* status), and the update_item that appends the comment.
AddComment ==
    /\ api_calls < MaxApiCalls
    /\ api_calls' = api_calls + 1
    /\ \E caller \in Callers, post_id \in PathIds, text \in {"", "hello"},
          status \in ModerationStatuses :
          IF caller.voter_id # caller.sub
          THEN /\ last_response' = Answer("add_comment", 403)
               /\ UNCHANGED posts_table
          ELSE IF text = ""
          THEN /\ last_response' = Answer("add_comment", 400)
               /\ UNCHANGED posts_table
          ELSE IF post_id \notin DOMAIN posts_table
          THEN /\ last_response' = Answer("add_comment", 404)
               /\ UNCHANGED posts_table
          ELSE /\ posts_table' =
                     [posts_table EXCEPT ![post_id] =
                         [@ EXCEPT !.comments =
                                      Append(@, CommentOf(caller.voter_id, PyNone,
                                                          status)),
                                   !.comment_count = @ + 1]]
               /\ last_response' = Answer("add_comment", 201)
    /\ UNCHANGED <<profiles, votes_in_flight, outside_api>>

\* The viewers of get_comments: no Authorization header, a token that
\* validate_jwt_token refuses, and the tokens it accepts.
Viewers ==
    {[token |-> "none", sub |-> PyNone], [token |-> "refused", sub |-> PyNone]}
    \cup {[token |-> "accepted", sub |-> u] : u \in Subs}

\* current_user_id of get_comments
CurrentUserId(viewer) ==
    IF viewer.token = "accepted" THEN viewer.sub ELSE PyNone

\* The test of the loop of get_comments.
Shown(comment, current_user_id) ==
    LET status == IF comment.moderation_status = PyNone THEN "approved"
                  ELSE comment.moderation_status
    IN \/ status = "approved"
       \/ status = "pending_review" /\ comment.voter_id = current_user_id

\* get_comments: the comments of the post the viewer is shown.
GetComments ==
    /\ api_calls < MaxApiCalls
    /\ api_calls' = api_calls + 1
    /\ \E viewer \in Viewers, post_id \in PathIds :
          IF post_id \notin DOMAIN posts_table
          THEN last_response' = Answer("get_comments", 404)
          ELSE last_response' =
                  [op |-> "get_comments", statusCode |-> 200, viewer |-> viewer,
                   comments |-> SelectSeq(posts_table[post_id].comments,
                                          LAMBDA c : Shown(c, CurrentUserId(viewer)))]
    /\ UNCHANGED <<posts_table, profiles, votes_in_flight, outside_api>>

\* list.remove(x): the list without the first x.
RemoveFirst(list, x) ==
    IF Member(x, list)
    THEN Without(list, CHOOSE i \in 1..Len(list) :
                          list[i] = x /\ \A j \in 1..(i - 1) : list[j] # x)
    ELSE list

\* Step 1 of delete_user_profile on one item: the user out of love_voters,
\* needs_update_voters and remove_post_voters, the counts their lengths.
WithoutVotesOf(item, user_id) ==
    LET love == IF Member(user_id, item.love_voters)
                THEN [item EXCEPT !.love_voters = RemoveFirst(@, user_id),
                                  !.love_votes = Len(item.love_voters) - 1]
                ELSE item
        update == IF Member(user_id, love.needs_update_voters)
                  THEN [love EXCEPT !.needs_update_voters = RemoveFirst(@, user_id),
                                    !.needs_update_votes = Len(love.needs_update_voters) - 1]
                  ELSE love
    IN IF Member(user_id, update.remove_post_voters)
       THEN [update EXCEPT !.remove_post_voters = RemoveFirst(@, user_id),
                           !.remove_post_votes = Len(update.remove_post_voters) - 1]
       ELSE update

\* Step 2 of delete_user_profile on one item: the comments whose user_id or
\* voter_id is the user's are taken out.
WithoutCommentsOf(item, user_id) ==
    LET new_comments == SelectSeq(item.comments,
                                  LAMBDA c : c.user_id # user_id /\ c.voter_id # user_id)
    IN IF Len(new_comments) < Len(item.comments)
       THEN [item EXCEPT !.comments = new_comments, !.comment_count = Len(new_comments)]
       ELSE item

\* The items of one table.scan() call: the first page of the table.
FirstPage(page_len) == {ScanOrder[i] : i \in 1..page_len}

\* delete_user_profile: a scan and the votes, a scan and the comments, and
\* the profile; each scan returns the first page of the table, which holds
\* one item or more. A store that raises ends the handler with 500.
DeleteUserProfile ==
    /\ api_calls < MaxApiCalls
    /\ api_calls' = api_calls + 1
    /\ \E user_id \in Subs, scan_raises \in BOOLEAN,
          votes_page \in 1..Len(ScanOrder), comments_page \in 1..Len(ScanOrder) :
          IF scan_raises
          THEN /\ last_response' = Answer("delete_user_profile", 500)
               /\ UNCHANGED <<posts_table, profiles>>
          ELSE /\ posts_table' =
                     [id \in DOMAIN posts_table |->
                        LET voted == IF id \in FirstPage(votes_page)
                                     THEN WithoutVotesOf(posts_table[id], user_id)
                                     ELSE posts_table[id]
                        IN IF id \in FirstPage(comments_page)
                           THEN WithoutCommentsOf(voted, user_id)
                           ELSE voted]
               /\ profiles' = profiles \ {user_id}
               /\ last_response' =
                     [op |-> "delete_user_profile", statusCode |-> 200,
                      user_id |-> user_id]
    /\ UNCHANGED <<votes_in_flight, outside_api>>

NextApi ==
    \/ VoteCheck
    \/ VoteUpdate
    \/ AddComment
    \/ GetComments
    \/ DeleteUserProfile

SpecApi == InitApi /\ [][NextApi]_vars

(***************************************************************************)
(* moderate_comment: the call_bedrock thread beside the thread of          *)
(* add_comment, which waits for it for 2 seconds.  Confidences are counted *)
(* in tenths.                                                              *)
(***************************************************************************)

\* The texts invoke_model returns to the thread.
ModerationTexts ==
    {"I cannot judge this comment.",
     "{\"status\": \"approved\", \"reason\": null, \"confidence\": 0.9}",
     "Sure: {\"status\": \"pending_review\", \"reason\": \"spam\", \"confidence\": 1.5}",
     "{\"status\": \"rejected\", \"confidence\": -1}",
     "{\"status\": \"pending_review\", \"reason\": \"uses {braces}\", \"confidence\": 0.8}",
     "{\"status\": \"pending_review\", \"confidence\": \"high\"}",
     "{\"status\": \"pending_review\", \"reason\": \"links\", \"confidence\": null}",
     "{} {\"confidence\": 1}"}

\* invoke_model raises, or returns a text.
ModerationReplies ==
    {[kind |-> "raise", text |-> ""]}
    \cup {[kind |-> "text", text |-> t] : t \in ModerationTexts}

\* re.search(r'\{[^}]+\}', content).group(): from the first "{" whose next
\* "}" is not right behind it to that "}"; "" when there is no match.
FirstFlatBraces(content) ==
    LET closing(i) == {j \in (i + 1)..Len(content) : SubSeq(content, j, j) = "}"}
        next(i) == CHOOSE j \in closing(i) : \A x \in closing(i) : j <= x
        starts == {i \in 1..Len(content) :
                     /\ SubSeq(content, i, i) = "{"
                     /\ closing(i) # {}
                     /\ next(i) > i + 1}
    IN IF starts = {} THEN ""
       ELSE LET first == CHOOSE i \in starts : \A x \in starts : i <= x
            IN SubSeq(content, first, next(first))

\* float(value) in tenths for a JSON number with at most one digit behind
\* the point; a string that writes no number, null, a list and a dict raise.
FloatTenths(v) ==
    IF v.t = "num"
    THEN LET negative == SubSeq(v.s, 1, 1) = "-"
             digits == IF negative THEN SubSeq(v.s, 2, Len(v.s)) ELSE v.s
             points == {i \in 1..Len(digits) : SubSeq(digits, i, i) = "."}
             point == IF points = {} THEN Len(digits) + 1 ELSE CHOOSE i \in points : TRUE
             whole == ToNumber(SubSeq(digits, 1, point - 1))
             tenth == IF point < Len(digits) THEN DigitValue[SubSeq(digits, point + 1, point + 1)]
                      ELSE 0
         IN [ok |-> TRUE, val |-> (IF negative THEN 0 - 1 ELSE 1) * (10 * whole + tenth)]
    ELSE IF v.t = "lit" /\ v.s = "true" THEN [ok |-> TRUE, val |-> 10]
    ELSE IF v.t = "lit" /\ v.s = "false" THEN [ok |-> TRUE, val |-> 0]
    ELSE IF v.t = "str" /\ v.s # "" /\ AllDigits(v.s) THEN [ok |-> TRUE, val |-> 10 * ToNumber(v.s)]
    ELSE [ok |-> FALSE]

Min(a, b) == IF a < b THEN a ELSE b

Max(a, b) == IF a > b THEN a ELSE b

\* max(0.0, min(1.0, confidence)), in tenths.
Clamp(confidence) == Max(0, Min(10, confidence))

\* What call_bedrock does with the text: [raises |-> TRUE] when json.loads
\* or float raise, [match |-> FALSE] when the text holds no braces to parse,
\* else the response it stores.
Moderation(content) ==
    LET found == FirstFlatBraces(content) IN
    IF found = "" THEN [raises |-> FALSE, match |-> FALSE]
    ELSE LET parsed == json_loads(found) IN
         IF ~parsed.ok THEN [raises |-> TRUE]
         ELSE LET given == ObjGet(parsed.val, "status", Str("approved"))
                  status == IF given \in {Str("approved"), Str("pending_review")}
                            THEN given.s ELSE "approved"
                  confidence == FloatTenths(ObjGet(parsed.val, "confidence",
                                                   [t |-> "num", s |-> "0.0"]))
              IN IF ~confidence.ok THEN [raises |-> TRUE]
                 ELSE [raises |-> FALSE, match |-> TRUE,
                       response |->
                          [status |-> status,
                           reason |-> IF status = "pending_review"
                                      THEN ObjGet(parsed.val, "reason", JsonNull)
                                      ELSE PyNone,
                           confidence |-> Clamp(confidence.val),
                           timestamp |-> "call_bedrock"]]

\* What each reply makes of the thread, worked out once.
ModerationOf == [reply \in ModerationReplies |->
                    IF reply.kind = "raise" THEN [raises |-> TRUE]
                    ELSE Moderation(reply.text)]

InitModeration ==
    /\ NoRequest
    /\ NoCrawl
    /\ posts_table \in PostsTables
    /\ profiles = Users
    /\ NoApiCall
    /\ Unmoderated("start")
    /\ NoSummaries
    /\ NoListing

\* thread.start(): the thread runs beside add_comment, which waits in
\* thread.join(timeout=2.0).
ModerateStart ==
    /\ mod_pc = "start"
    /\ mod_pc' = "waiting"
    /\ thread_pc' = "running"
    /\ UNCHANGED <<mod_result, moderation_reply, wait_expired, reply_after_wait,
                   timeout_logged, moderation_result, posts_table, outside_moderation>>

\* call_bedrock up to its first write to result: invoke_model returns or
\* raises, the text is searched and parsed.  The except branch and a text
\* without braces set completed; a parsed text sets response.
ThreadCall ==
    /\ thread_pc = "running"
    /\ \E reply \in ModerationReplies :
          /\ moderation_reply' = reply
          /\ reply_after_wait' = wait_expired
          /\ IF ModerationOf[reply].raises \/ ~ModerationOf[reply].match
             THEN /\ mod_result' = [mod_result EXCEPT !.completed = TRUE]
                  /\ thread_pc' = "finished"
             ELSE /\ mod_result' = [mod_result EXCEPT !.response = ModerationOf[reply].response]
                  /\ thread_pc' = "responded"
    /\ UNCHANGED <<mod_pc, wait_expired, timeout_logged, moderation_result,
                   posts_table, outside_moderation>>

\* result['completed'] = True behind the stored response.
ThreadComplete ==
    /\ thread_pc = "responded"
    /\ mod_result' = [mod_result EXCEPT !.completed = TRUE]
    /\ thread_pc' = "finished"
    /\ UNCHANGED <<mod_pc, moderation_reply, wait_expired, reply_after_wait,
                   timeout_logged, moderation_result, posts_table, outside_moderation>>

\* thread.join(timeout=2.0) returns because the thread has ended.
JoinReturns ==
    /\ mod_pc = "waiting"
    /\ thread_pc = "finished"
    /\ mod_pc' = "joined"
    /\ UNCHANGED <<thread_pc, mod_result, moderation_reply, wait_expired,
                   reply_after_wait, timeout_logged, moderation_result, posts_table,
                   outside_moderation>>

\* thread.join(timeout=2.0) returns because the 2 seconds are over.
JoinTimesOut ==
    /\ mod_pc = "waiting"
    /\ thread_pc # "finished"
    /\ mod_pc' = "joined"
    /\ wait_expired' = TRUE
    /\ UNCHANGED <<thread_pc, mod_result, moderation_reply, reply_after_wait,
                   timeout_logged, moderation_result, posts_table, outside_moderation>>

\* if not result['completed']: print(...)
CheckCompleted ==
    /\ mod_pc = "joined"
    /\ mod_pc' = "checked"
    /\ timeout_logged' = ~mod_result.completed
    /\ UNCHANGED <<thread_pc, mod_result, moderation_reply, wait_expired,
                   reply_after_wait, moderation_result, posts_table, outside_moderation>>

\* return result['response']
ModerateReturns ==
    /\ mod_pc = "checked"
    /\ mod_pc' = "returned"
    /\ moderation_result' = mod_result.response
    /\ UNCHANGED <<thread_pc, mod_result, moderation_reply, wait_expired,
                   reply_after_wait, timeout_logged, posts_table, outside_moderation>>

\* add_comment behind moderate_comment: the comment with the status of the
\* moderation result is appended to the comments of the post.
StoreComment ==
    /\ mod_pc = "returned"
    /\ mod_pc' = "stored"
    /\ \E voter_id \in Users :
          posts_table' =
             [posts_table EXCEPT !["a"] =
                 [@ EXCEPT !.comments = Append(@, CommentOf(voter_id, PyNone,
                                                            moderation_result.status)),
                           !.comment_count = @ + 1]]
    /\ UNCHANGED <<thread_pc, mod_result, moderation_reply, wait_expired,
                   reply_after_wait, timeout_logged, moderation_result,
                   outside_moderation>>

NextModeration ==
    \/ ModerateStart
    \/ ThreadCall
    \/ ThreadComplete
    \/ JoinReturns
    \/ JoinTimesOut
    \/ CheckCompleted
    \/ ModerateReturns
    \/ StoreComment

SpecModeration == InitModeration /\ [][NextModeration]_vars

(***************************************************************************)
(* summary_lambda: the runs of the generator over the table, beside each   *)
(* other, and the crawler handler that invokes them in batches.            *)
(***************************************************************************)

\* The posts of the table of a crawl.
MaxPosts == 6

\* The failures of the model and of the store that may be on record at a
\* time: the errors the runs have counted and the error texts in the table.
MaxFailures == 1

\* batch_size of the crawler handler, and the default of the generator
SummaryBatchSize == 5

RECURSIVE PostIdsUpTo(_)
\* The ids of the table in the order table.scan returns them: "p1", "p2", ...
PostIdsUpTo(n) ==
    IF n = 0 THEN <<>> ELSE Append(PostIdsUpTo(n - 1), "p" \o ToString(n))

\* An item of the table: its summary (Absent when it has none) and whether
\* its content has the 50 characters generate_summary asks for.
BlogItem(summary, long_content) ==
    [summary |-> summary, long_content |-> long_content]

\* The table after a crawl that flagged the first n of its posts: their
\* summary is empty, the others have one.
CrawledTable(n) ==
    [id \in {PostIdsUpTo(MaxPosts)[i] : i \in 1..MaxPosts} |->
        IF \E i \in 1..n : PostIdsUpTo(MaxPosts)[i] = id
        THEN BlogItem("", TRUE)
        ELSE BlogItem("Old summary", TRUE)]

NoWrites(items) == [id \in DOMAIN items |-> {}]

\* The crawler handler has crawled and flagged posts; the generator has not
\* been invoked.
InitSummary ==
    /\ NoRequest
    /\ NoCrawl
    /\ NoApi
    /\ NoModeration
    /\ NoListing
    /\ summaries_needed \in {2, MaxPosts}
    /\ blog_table = CrawledTable(summaries_needed)
    /\ summary_writes = NoWrites(blog_table)
    /\ NoRuns

\* The event of a run: post_id (None when it has none), batch_size, force.
RunEvent(post_id, batch_size, force) ==
    [post_id |-> post_id, batch_size |-> batch_size, force |-> force]

\* A run that lambda_client.invoke has asked for and that has not started.
Invoked(run_event) ==
    [pc |-> "invoked", event |-> run_event, posts_to_process |-> <<>>,
     posts_processed |-> 0, summaries_generated |-> 0, errors |-> 0,
     errors_at_start |-> {}]

\* num_batches = (aws_blog_summaries_needed + batch_size - 1) // batch_size
NumBatches(needed) == (needed + SummaryBatchSize - 1) \div SummaryBatchSize

\* The crawler's lambda_handler behind the crawl: it invokes the batches,
\* asynchronously; an invoke that raises ends the loop.
InvokeSummaryBatches ==
    /\ summary_batches_invoked = -1
    /\ summaries_needed > 0
    /\ \E invoked \in 0..NumBatches(summaries_needed) :
          /\ runs' = [i \in 1..invoked |->
                        Invoked(RunEvent(PyNone, SummaryBatchSize, FALSE))]
          /\ summary_batches_invoked' =
                IF invoked = NumBatches(summaries_needed) THEN invoked ELSE 0
    /\ UNCHANGED <<blog_table, summaries_needed, summary_writes, outside_summary>>

\* A filter that lets every item through.
SummaryMissingOrNot(item) == item.summary = item.summary

\* FilterExpression='attribute_not_exists(summary) OR summary = :empty'
SummaryMissing(item) == item.summary \in {Absent, ""}

\* The items a scan returns, in scan order: all with force, else those
\* without a summary.
Scanned(items, scan_order, force) ==
    SelectSeq(scan_order,
              LAMBDA id : id \in DOMAIN items /\ (force \/ SummaryMissing(items[id])))

\* The summaries generate_summary returns when it does not return the
\* model's text.
InsufficientContent == "Summary not available - insufficient content."

ErrorSummary == "Error generating summary: ThrottlingException"

IsErrorSummary(summary) == Prefix(summary, 25) = "Error generating summary:"

ErrorPosts(items) == {id \in DOMAIN items : IsErrorSummary(items[id].summary)}

\* generate_summary(title, content): no call for a short content, else the
\* stripped text of the model or, when the call raises, the error text.
generate_summary(long_content, model_raises) ==
    IF ~long_content THEN InsufficientContent
    ELSE IF model_raises THEN ErrorSummary
    ELSE Strip(" A summary of the post. ")

\* The posts of the table in scan order.
TableOrder == PostIdsUpTo(MaxPosts)

\* lambda_handler of the generator up to its loop: posts_to_process is the
\* post of the event, or the first batch_size items of the scan; a scan
\* that raises ends the handler with 500.
RunBegins(r) ==
    /\ runs[r].pc = "invoked"
    /\ \E store_raises \in BOOLEAN :
          LET post_id == runs[r].event.post_id
              found == IF post_id # PyNone
                       THEN (IF store_raises \/ post_id \notin DOMAIN blog_table
                             THEN <<>> ELSE <<post_id>>)
                       ELSE Take(Scanned(blog_table, TableOrder, runs[r].event.force),
                                 runs[r].event.batch_size)
          IN runs' = [runs EXCEPT ![r] =
                         IF post_id = PyNone /\ store_raises
                         THEN [@ EXCEPT !.pc = "failed"]
                         ELSE [@ EXCEPT !.pc = "processing",
                                        !.posts_to_process = found,
                                        !.errors_at_start = ErrorPosts(blog_table)]]
    /\ UNCHANGED <<blog_table, summaries_needed, summary_batches_invoked,
                   summary_writes, outside_summary>>

\* One turn of the loop of a run: generate_summary for the next post and the
\* update_item that stores what it returned; the content is the one the
\* run read at its start.
ProcessPost(r, model_raises, update_raises) ==
    LET run == runs[r]
        post_id == run.posts_to_process[run.posts_processed + 1]
        summary == generate_summary(blog_table[post_id].long_content, model_raises)
    IN /\ run.pc = "processing"
       /\ run.posts_processed < Len(run.posts_to_process)
       /\ IF update_raises
          THEN /\ runs' = [runs EXCEPT ![r] =
                              [@ EXCEPT !.posts_processed = @ + 1, !.errors = @ + 1]]
               /\ UNCHANGED <<blog_table, summary_writes>>
          ELSE /\ runs' = [runs EXCEPT ![r] =
                              [@ EXCEPT !.posts_processed = @ + 1,
                                        !.summaries_generated = @ + 1]]
               /\ blog_table' = [blog_table EXCEPT ![post_id].summary = summary]
               /\ summary_writes' = [summary_writes EXCEPT ![post_id] = @ \cup {r}]
       /\ UNCHANGED <<summaries_needed, summary_batches_invoked, outside_summary>>

RECURSIVE ErrorsOf(_, _)
ErrorsOf(all_runs, r) ==
    IF r = 0 THEN 0 ELSE all_runs[r].errors + ErrorsOf(all_runs, r - 1)

\* The failures on record.
FailuresOnRecord ==
    ErrorsOf(runs, Len(runs)) + Cardinality(ErrorPosts(blog_table))

\* The loop of the runs; the model and the store fail while fewer than
\* MaxFailures failures are on record.
ProcessNextPost ==
    \E r \in 1..Len(runs), model_raises \in BOOLEAN, update_raises \in BOOLEAN :
       /\ (model_raises \/ update_raises) => FailuresOnRecord < MaxFailures
       /\ ProcessPost(r, model_raises, update_raises)

\* The handlers of the runs start.
StartRun == \E r \in 1..Len(runs) : RunBegins(r)

\* The result and the 200 of a run behind its loop.
RunReturns ==
    /\ \E r \in 1..Len(runs) :
          /\ runs[r].pc = "processing"
          /\ runs[r].posts_processed = Len(runs[r].posts_to_process)
          /\ runs' = [runs EXCEPT ![r] = [@ EXCEPT !.pc = "done"]]
    /\ UNCHANGED <<blog_table, summaries_needed, summary_batches_invoked,
                   summary_writes, outside_summary>>

NextSummary ==
    \/ InvokeSummaryBatches
    \/ StartRun
    \/ ProcessNextPost
    \/ RunReturns

SpecSummary == InitSummary /\ [][NextSummary]_vars

\* The runs of the generator that are invoked by hand or by a schedule.
MaxRuns == 2

\* The events of these runs, forced or not: for a scan, with the default
\* batch size or 1, or for one post (one of the table or one that is gone),
\* where the batch size is not read.
RunEvents ==
    {RunEvent(PyNone, batch_size, force) :
        batch_size \in {1, SummaryBatchSize}, force \in BOOLEAN}
    \cup {RunEvent(post_id, SummaryBatchSize, force) :
            post_id \in {"p1", "gone"}, force \in BOOLEAN}

\* The tables these runs find: two posts without summary, the second with
\* no summary attribute and a content too short to summarize, or with one.
RunTables ==
    {[id \in {"p1", "p2"} |->
        IF id = "p1" THEN BlogItem("", TRUE) ELSE BlogItem(Absent, long_content)] :
     long_content \in BOOLEAN}

InitRuns ==
    /\ NoRequest
    /\ NoCrawl
    /\ NoApi
    /\ NoModeration
    /\ NoListing
    /\ summaries_needed = 0
    /\ blog_table \in RunTables
    /\ summary_writes = NoWrites(blog_table)
    /\ NoRuns

\* lambda_client.invoke of the generator with an event, by hand or by a
\* schedule, one run behind the other: the runs invoked before have ended.
InvokeRun ==
    /\ Len(runs) < MaxRuns
    /\ \A r \in 1..Len(runs) : runs[r].pc \in {"done", "failed"}
    /\ \E run_event \in RunEvents : runs' = Append(runs, Invoked(run_event))
    /\ UNCHANGED <<blog_table, summaries_needed, summary_batches_invoked,
                   summary_writes, outside_summary>>

NextRuns ==
    \/ InvokeRun
    \/ StartRun
    \/ ProcessNextPost
    \/ RunReturns

SpecRuns == InitRuns /\ [][NextRuns]_vars

\* The listing pages of a site and the largest limit a call is made with.
MaxListingPages == 3
MaxPagesLimit == 2

ListingPages == {<<"l1", "l2", "l3", "l4", "l5">>[i] : i \in 1..MaxListingPages}

\* self.base_url
BaseUrl == "l1"

\* The sites: find_next_page of each listing page, a listing page of the
\* site (itself and earlier ones included) or None.
Sites == [ListingPages -> ListingPages \cup {PyNone}]

\* The values of max_pages: None, 0 and the limits up to MaxPagesLimit.
MaxPagesValues ==
    {MaxPagesNone} \cup {[given |-> TRUE, pages |-> n] : n \in 0..MaxPagesLimit}

\* Python's truth value of max_pages: None and 0 are false.
LimitSet(max_pages) == max_pages.given /\ max_pages.pages # 0

\* if max_pages and page_num > max_pages
LimitReached(max_pages, page_num) == LimitSet(max_pages) /\ page_num > max_pages.pages

InitListing ==
    /\ NoRequest
    /\ NoCrawl
    /\ NoApi
    /\ NoModeration
    /\ NoSummaries
    /\ \E next_page \in Sites : listing = NotListing(next_page)

\* crawl_all_posts(max_pages) up to its loop.
CrawlAllPosts ==
    /\ listing.pc = "idle"
    /\ \E max_pages \in MaxPagesValues :
          listing' = [listing EXCEPT !.pc = "listing",
                                     !.max_pages = max_pages,
                                     !.current_url = BaseUrl,
                                     !.page_num = 1,
                                     !.visited_pages = {},
                                     !.get_page_calls = [url \in ListingPages |-> 0]]
    /\ UNCHANGED outside_listing

\* One turn of the loop over the listing pages, with what get_page returns
\* behind its attempts: the page, or None.
ListingTurn(fetched) ==
    LET current_url == listing.current_url
        visited == listing.visited_pages \cup {current_url}
        next_url == listing.next_page[current_url]
    IN /\ listing.pc = "listing"
       /\ listing' =
            IF current_url = PyNone \/ current_url \in listing.visited_pages
            THEN [listing EXCEPT !.pc = "collected"]
            ELSE IF LimitReached(listing.max_pages, listing.page_num)
            THEN [listing EXCEPT !.pc = "collected"]
            ELSE IF ~fetched
            THEN [listing EXCEPT !.pc = "collected",
                                 !.visited_pages = visited,
                                 !.get_page_calls[current_url] = @ + 1,
                                 !.failed_page = current_url]
            ELSE IF next_url # PyNone /\ next_url # current_url /\ next_url \notin visited
            THEN [listing EXCEPT !.visited_pages = visited,
                                 !.get_page_calls[current_url] = @ + 1,
                                 !.fetched_pages = @ \cup {current_url},
                                 !.current_url = next_url,
                                 !.page_num = @ + 1]
            ELSE [listing EXCEPT !.pc = "collected",
                                 !.visited_pages = visited,
                                 !.get_page_calls[current_url] = @ + 1,
                                 !.fetched_pages = @ \cup {current_url}]
       /\ UNCHANGED outside_listing

FetchListingPage == \E fetched \in BOOLEAN : ListingTurn(fetched)

NextListing ==
    \/ CrawlAllPosts
    \/ FetchListingPage

\* The loop is the only thing the crawler does here, so it takes its turns.
SpecListing == InitListing /\ [][NextListing]_vars /\ WF_vars(NextListing)

(***************************************************************************)
(* The properties of the request.                                          *)
(***************************************************************************)

\* What extract_json_from_text returns for each text of the model.
JsonOf == [text \in AiTexts \cup {""} |-> extract_json_from_text(text)]

RecommendationFields ==
    {"post_id", "title", "summary", "label", "url", "relevance_reason"}

\* A response text and a list of recommendations, each with its six fields.
WellFormed(res) ==
    /\ DOMAIN res = {"response", "recommendations"}
    /\ res.response.t = "str"
    /\ \A i \in 1..Len(res.recommendations) :
          /\ DOMAIN res.recommendations[i] = RecommendationFields
          /\ res.recommendations[i].relevance_reason.t = "str"

\* The model call of the request raised, or returned a text in which no
\* JSON is found.
ModelFailed ==
    \/ ai_reply.kind = "raise"
    \/ ai_reply.kind = "text" /\ ~JsonOf[ai_reply.text].ok

\* C1: once the model call raised or returned a text that cannot be parsed,
\* get_ai_recommendations has returned, by the fallback path, a well-formed
\* result of at most 5 recommendations, and the request is answered 200
\* with it.
C1_FailureDegradesToFallback ==
    (pc \in {"answered", "done"} /\ ModelFailed) =>
        /\ path = "fallback"
        /\ WellFormed(result)
        /\ Len(result.recommendations) \in 0..5
        /\ pc = "done" =>
              /\ response.statusCode = 200
              /\ response.recommendations = result.recommendations

\* The model returned an unparsable text and the fallback filled all five
\* places.
C1_Witness ==
    /\ pc = "done"
    /\ ai_reply.kind = "text"
    /\ ~JsonOf[ai_reply.text].ok
    /\ Len(response.recommendations) = 5
    /\ Len(fallback_scored) > 5

\* The request got past validation and its posts were ranked.
Ranked == pc \in {"ranked", "calling", "answered", "done"} /\ path # "rejected"

\* C2: when the Ranker returned no candidate, the model is not called at any
\* point of the request: the handler is never in the call, no call is
\* counted, and the result that is returned is the fallback's.
C2_NoCandidatesNoModelCall ==
    (Ranked /\ relevant_posts = <<>>) =>
        /\ model_calls = 0
        /\ pc # "calling"
        /\ ai_reply = NoReply
        /\ pc \in {"answered", "done"} => path = "fallback"

\* A request over a table with posts ended without a candidate.
C2_Witness ==
    /\ pc = "done"
    /\ all_posts # <<>>
    /\ relevant_posts = <<>>
    /\ response.statusCode = 200

\* The score the Ranker's scorer gives the i-th post of the request.
PostScore(i) ==
    ScorePost(Lower(user_message), ExtractKeywords(Lower(user_message)),
              detect_domain(Lower(user_message)), all_posts[i], now)

\* The score the fallback's scorer gives the i-th post of the request.
PostFallbackScore(i) ==
    FallbackScorePost(Lower(user_message), ExtractKeywords(Lower(user_message)),
                      detect_domain(Lower(user_message)), all_posts[i])

NoPostScores == \A i \in 1..Len(all_posts) : PostScore(i) = 0

\* C3: when no post of the corpus scores above 0, the result has no
\* recommendation and a response text that is not empty and quotes the
\* query, and the fallback scorer gives no post a positive score.
C3_NoMatchResponse ==
    /\ (pc = "answered" /\ NoPostScores) =>
          /\ result.recommendations = <<>>
          /\ result.response.t = "str"
          /\ result.response.s # ""
          /\ Contains(user_message, result.response.s)
          /\ \A i \in 1..Len(all_posts) : PostFallbackScore(i) = 0
    /\ (pc = "done" /\ path # "rejected") =>
          /\ response.recommendations = result.recommendations
          /\ response.response = result.response

\* A request over a table with posts, none of which scores, was answered.
C3_Witness ==
    /\ pc = "done"
    /\ path = "fallback"
    /\ all_posts # <<>>
    /\ NoPostScores
    /\ response.recommendations = <<>>

\* The position of the post in a list of posts with different ids.
IndexOf(posts, post) ==
    CHOOSE k \in 1..Len(posts) : posts[k].post_id = post.post_id

\* Scores never rise from one place of the list to the next, and two
\* neighbours of one score stand in the order they have in the input (posts
\* of one score are neighbours once scores never rise).
SortedStable(posts, scores, input) ==
    \A i \in 1..(Len(posts) - 1) :
        /\ scores[i] >= scores[i + 1]
        /\ scores[i] = scores[i + 1] =>
              IndexOf(input, posts[i]) < IndexOf(input, posts[i + 1])

ScoreOfPost(post) ==
    ScorePost(Lower(user_message), ExtractKeywords(Lower(user_message)),
              detect_domain(Lower(user_message)), post, now)

FallbackScoreOfPost(post) ==
    FallbackScorePost(Lower(user_message), ExtractKeywords(Lower(user_message)),
                      detect_domain(Lower(user_message)), post)

\* C4: the list the Ranker returns, and the list fallback_search ranks, are
\* in the order of a stable descending sort of their input by the score of
\* their scorer.
C4_StableDescendingOrder ==
    /\ pc = "ranked" =>
          \E scores \in {[i \in 1..Len(relevant_posts) |-> ScoreOfPost(relevant_posts[i])]} :
              SortedStable(relevant_posts, scores, all_posts)
    /\ (pc = "answered" /\ path = "fallback") =>
          \E scores \in {[i \in 1..Len(fallback_scored) |->
                            FallbackScoreOfPost(fallback_scored[i].post)]} :
              SortedStable([i \in 1..Len(fallback_scored) |-> fallback_scored[i].post],
                           scores, fallback_posts)

HasTie(scored) ==
    \E i, j \in 1..Len(scored) : i < j /\ scored[i].score = scored[j].score

HasDrop(scored) ==
    \E i, j \in 1..Len(scored) : i < j /\ scored[i].score > scored[j].score

\* Both lists were ranked, each with posts of one score and posts of
\* different scores.
C4_Witness ==
    /\ pc = "done"
    /\ path = "fallback"
    /\ HasTie(scored_posts) /\ HasDrop(scored_posts)
    /\ HasTie(fallback_scored) /\ HasDrop(fallback_scored)

PostIds(posts) == [i \in 1..Len(posts) |-> posts[i].post_id]

\* C5: fallback_search over the corpus recommends the first five posts of
\* filter_and_score_posts over the corpus, in that order, and the two
\* scorers give every post the same score.
C5_SameRankingAtBothSites ==
    pc = "ranked" =>
        /\ PostIds(fallback_search(user_message, all_posts).recommendations)
             = PostIds(Take(relevant_posts, FallbackLimit))
        /\ \A i \in 1..Len(all_posts) : PostFallbackScore(i) = PostScore(i)

\* The model call of the request ended in the except branch.
ExceptTaken == pc \in {"answered", "done"} /\ ai_reply.kind # "none" /\ path = "fallback"

TitleOf(post) == Lower(Get(post, "title", ""))
SummaryOf(post) == Lower(Get(post, "summary", ""))
TagsOf(post) == Lower(Get(post, "tags", ""))
ContentOf(post) == Prefix(Lower(Get(post, "content", "")), 1000)

\* The date of the post is read as a day, and from the start of that day to
\* the evaluation time at most 180 days have passed.
Within180Days(post, at) ==
    LET day == ParseIsoDate(BeforeT(Get(post, "date_published", ""))) IN
    /\ day # Unparsable
    /\ \/ at.day - day < 180
       \/ at.day - day = 180 /\ ~at.after_midnight

\* How many of the words are in the text.
Hits(words, text) == Cardinality({k \in 1..Len(words) : Contains(words[k], text)})

\* The rule set of the Post Scorer for a query and a post: the points of
\* every rule that applies, added up.
RuleScore(query, post, at) ==
    LET q == Lower(query)
        kws == ExtractKeywords(q)
        domain == detect_domain(q)
        dkws == IF domain = NoDomain THEN <<>> ELSE EUC_DOMAINS[domain]
        in_title == {k \in 1..Len(dkws) : Contains(dkws[k], TitleOf(post))}
        in_summary == {k \in 1..Len(dkws) : Contains(dkws[k], SummaryOf(post))}
        in_tags == {k \in 1..Len(dkws) : Contains(dkws[k], TagsOf(post))}
    IN (IF Contains(q, TitleOf(post)) THEN 10 ELSE 0)
       + 5 * Hits(kws, TitleOf(post))
       + 3 * Hits(kws, SummaryOf(post))
       + 4 * Hits(kws, TagsOf(post))
       + 1 * Hits(kws, ContentOf(post))
       + 8 * Cardinality(in_title)
       + 6 * Cardinality(in_summary \ in_title)
       + 7 * Cardinality(in_tags \ (in_title \cup in_summary))
       + (IF Within180Days(post, at) THEN 2 ELSE 0)

\* The score the sorted scored_posts holds for the post: 0 when the post is
\* not in it.
ListedScore(post) ==
    LET at == {k \in 1..Len(scored_posts) : scored_posts[k].post.post_id = post.post_id}
    IN IF at = {} THEN 0 ELSE scored_posts[CHOOSE k \in at : TRUE].score

Extended(query, word) == query \o " " \o word

\* The words a query is extended by.
ExtWords == {"guide", "tutorial", "workspace", "fleet"}

\* The word is in a scored field of the post.
Matches(word, post) ==
    \/ Contains(word, TitleOf(post))
    \/ Contains(word, SummaryOf(post))
    \/ Contains(word, TagsOf(post))
    \/ Contains(word, ContentOf(post))

ScoreFor(query, post) ==
    ScorePost(Lower(query), ExtractKeywords(Lower(query)),
              detect_domain(Lower(query)), post, now)

\* C8 as stated: a query extended by a keyword that matches the post never
\* scores the post lower than the query, whatever the word does to the
\* detected domain and to the exact-phrase match.
C8_MonotoneInKeywords ==
    pc = "ranked" =>
        \E base \in {[i \in 1..Len(all_posts) |-> ScoreFor(user_message, all_posts[i])]} :
            \A w \in ExtWords : \A i \in 1..Len(all_posts) :
                Matches(w, all_posts[i]) =>
                    ScoreFor(Extended(user_message, w), all_posts[i]) >= base[i]

SameDomain(query, w) ==
    detect_domain(Lower(Extended(query, w))) = detect_domain(Lower(query))

BreaksPhrase(query, w, post) ==
    /\ Contains(Lower(query), TitleOf(post))
    /\ ~Contains(Lower(Extended(query, w)), TitleOf(post))

\* C8, amended: a query extended by a keyword that matches the post never
\* scores the post lower than the query, unless the word changes the
\* detected domain or breaks the exact-phrase match.
C8_MonotoneWithDomainAndPhraseKept ==
    pc = "ranked" =>
        \E base \in {[i \in 1..Len(all_posts) |-> ScoreFor(user_message, all_posts[i])]} :
            \A w \in {x \in ExtWords : SameDomain(user_message, x)} :
                \A i \in 1..Len(all_posts) :
                    (/\ Matches(w, all_posts[i])
                     /\ ~BreaksPhrase(user_message, w, all_posts[i])) =>
                        ScoreFor(Extended(user_message, w), all_posts[i]) >= base[i]

\* A post was scored that a word matches which keeps the domain and the
\* phrase, and the extended query scores it higher.
C8_Witness ==
    /\ pc = "ranked"
    /\ \E w \in ExtWords : \E i \in 1..Len(all_posts) :
          /\ Matches(w, all_posts[i])
          /\ SameDomain(user_message, w)
          /\ ~BreaksPhrase(user_message, w, all_posts[i])
          /\ ExtractKeywords(Lower(user_message)) # <<>>
          /\ ScoreFor(Extended(user_message, w), all_posts[i])
                > ScoreFor(user_message, all_posts[i])

\* The order of the taxonomy.
TaxonomyOrder ==
    <<"workspaces", "appstream", "workspaces_web", "workspaces_thin_client",
      "dcv", "workdocs", "chime", "connect", "end_user_computing">>

\* A keyword of the domain is in the text.
DomainHit(name, text) ==
    \E k \in 1..Len(EUC_DOMAINS[name]) : Contains(EUC_DOMAINS[name][k], text)

\* C9: the domain detected for the query of the request is the first domain
\* of the taxonomy order a keyword of which is in the query, whatever later
\* domains are hit too, and none when no domain is hit; this fixes the result
\* for a query text.
C9_FirstDomainInOrder ==
    pc = "ranked" =>
        LET q == Lower(user_message)
            d == detect_domain(q)
        IN IF \A n \in 1..Len(TaxonomyOrder) : ~DomainHit(TaxonomyOrder[n], q)
           THEN d = NoDomain
           ELSE \E n \in 1..Len(TaxonomyOrder) :
                   /\ d = TaxonomyOrder[n]
                   /\ DomainHit(d, q)
                   /\ \A m \in 1..(n - 1) : ~DomainHit(TaxonomyOrder[m], q)

\* The query of a ranked request hits two domains, and the first is
\* detected and boosts a post.
C9_Witness ==
    /\ pc = "ranked"
    /\ scored_posts # <<>>
    /\ DomainHit("workspaces", Lower(user_message))
    /\ DomainHit("workspaces_web", Lower(user_message))
    /\ detect_domain(Lower(user_message)) = "workspaces"

\* No post of the request has one of the three words in a scored field.
NoScenarioWord ==
    \A i \in 1..Len(all_posts) : \A w \in {"random", "unrelated", "topic"} :
        ~Matches(w, all_posts[i])

\* C10: for the query "random unrelated topic xyz" over posts without the
\* three words, whatever their dates, the Ranker returns nothing and the
\* request ends in the no-matches response without a recommendation.
C10_ScenarioB ==
    (Ranked /\ user_message = "random unrelated topic xyz" /\ NoScenarioWord) =>
        /\ relevant_posts = <<>>
        /\ pc \in {"answered", "done"} =>
              /\ path = "fallback"
              /\ result.recommendations = <<>>

\* The days from the day of the post's date to the day of the request.
DaysBefore(post, at) ==
    at.day - ParseIsoDate(BeforeT(Get(post, "date_published", "")))

\* Two posts that the scorer can tell apart by their date alone.
SameButDate(a, b) ==
    /\ Get(a, "title", "") = Get(b, "title", "")
    /\ Get(a, "summary", "") = Get(b, "summary", "")
    /\ Get(a, "tags", "") = Get(b, "tags", "")
    /\ Get(a, "content", "") = Get(b, "content", "")

\* The positions of the post in a list of posts.
PlacesOf(posts, post) == {k \in 1..Len(posts) : posts[k].post_id = post.post_id}

\* C11: of two posts that differ in their date alone, one dated 10 days and
\* one 200 days before the request, the first gets the recency boost of 2
\* and the second none, their listed scores differ by exactly 2, and when
\* both are among the candidates the first stands before the second,
\* whatever their order in the corpus.
C11_ScenarioC ==
    pc = "ranked" =>
        \E days \in {[i \in 1..Len(all_posts) |-> DaysBefore(all_posts[i], now)]} :
            \A i \in {x \in 1..Len(all_posts) : days[x] = 10} :
                \A j \in {x \in 1..Len(all_posts) : days[x] = 200} :
                    SameButDate(all_posts[i], all_posts[j]) =>
                        /\ RecencyPoints(all_posts[i], now) = 2
                        /\ RecencyPoints(all_posts[j], now) = 0
                        /\ \A a \in PlacesOf(relevant_posts, all_posts[i]) :
                              \A b \in PlacesOf(relevant_posts, all_posts[j]) :
                                  /\ a < b
                                  /\ scored_posts[a].score = scored_posts[b].score + 2

\* The older post of such a pair stands first in the corpus, both are
\* candidates, and the Ranker put the newer one first.
C11_Witness ==
    /\ pc = "ranked"
    /\ \E i, j \in 1..Len(all_posts) :
          /\ j < i
          /\ DaysBefore(all_posts[i], now) = 10
          /\ DaysBefore(all_posts[j], now) = 200
          /\ SameButDate(all_posts[i], all_posts[j])
          /\ PlacesOf(relevant_posts, all_posts[i]) # {}
          /\ PlacesOf(relevant_posts, all_posts[j]) # {}
          /\ \A a \in PlacesOf(relevant_posts, all_posts[i]) :
                \A b \in PlacesOf(relevant_posts, all_posts[j]) : a < b

\* The model returned a text, and the JSON found in it is an object whose
\* recommendations are a list of objects.
ModelListed ==
    /\ ai_reply.kind = "text"
    /\ LET parsed == JsonOf[ai_reply.text] IN
       IF ~parsed.ok THEN FALSE
       ELSE IF parsed.val.t # "obj" THEN FALSE
       ELSE LET recs == ObjGet(parsed.val, "recommendations", JsonNull) IN
            IF recs.t # "arr" THEN FALSE
            ELSE \A k \in 1..Len(recs.items) : recs.items[k].t = "obj"

\* The entries of the list the model returned, all of them.
ModelItems ==
    ObjGet(JsonOf[ai_reply.text].val, "recommendations", JsonNull).items

\* The identifier of an entry is the post_id of a post of the corpus.
NamesPost(rec) ==
    LET id == ObjGet(rec, "post_id", JsonNull) IN
    /\ id.t = "str"
    /\ \E i \in 1..Len(all_posts) : all_posts[i].post_id = id.s

\* The recommendation is made of the fields of a post of the corpus with
\* the identifier of the entry.
ResolvesTo(recommendation, rec) ==
    \E i \in 1..Len(all_posts) :
        /\ all_posts[i].post_id = ObjGet(rec, "post_id", JsonNull).s
        /\ recommendation.post_id = all_posts[i].post_id
        /\ recommendation.title = Get(all_posts[i], "title", "")
        /\ recommendation.summary = Get(all_posts[i], "summary", "")
        /\ recommendation.label = Get(all_posts[i], "label", "Unknown")
        /\ recommendation.url = Get(all_posts[i], "url", "")

\* The result carries, in the model's order, one recommendation for each of
\* the entries, each resolved to its post.
CarriesEach(entries) ==
    /\ Len(result.recommendations) = Len(entries)
    /\ \A k \in 1..Len(entries) : ResolvesTo(result.recommendations[k], entries[k])

\* C12 as stated: the result of the generative path carries every
\* identifier of the model that names a post, up to five of them: an
\* identifier that names no post takes no place of the five.
C12_EveryIdentifierResolved ==
    (pc = "answered" /\ ModelListed /\ ModelItems # <<>>) =>
        /\ path = "generative"
        /\ CarriesEach(Take(SelectSeq(ModelItems, NamesPost), AiRecommendationLimit))

\* C12, amended: the first five entries of the model's list are looked at
\* and no other; the result of the generative path carries those of them
\* that name a post, each resolved to that post, the others are left out
\* without an error and without the fallback, and the response holds at most
\* five recommendations, each of a post of the corpus.
C12_FirstFiveResolved ==
    /\ (pc = "answered" /\ ModelListed /\ ModelItems # <<>>) =>
          /\ path = "generative"
          /\ CarriesEach(SelectSeq(Take(ModelItems, AiRecommendationLimit), NamesPost))
          /\ Len(result.recommendations) <= 5
          /\ \A k \in 1..Len(result.recommendations) :
                \E i \in 1..Len(all_posts) :
                    all_posts[i].post_id = result.recommendations[k].post_id
    /\ (pc = "done" /\ path = "generative") =>
          /\ response.statusCode = 200
          /\ response.recommendations = result.recommendations
          /\ Len(response.recommendations) <= 5

\* The model returned more than five entries, one of the first five names
\* no post and one behind them names one, and the request was answered by
\* the generative path with fewer than five recommendations.
C12_Witness ==
    /\ pc = "done"
    /\ path = "generative"
    /\ Len(ModelItems) > 5
    /\ \E k \in 1..5 : ~NamesPost(ModelItems[k])
    /\ \E k \in 6..Len(ModelItems) : NamesPost(ModelItems[k])
    /\ response.recommendations # <<>>
    /\ Len(response.recommendations) < 5

\* The places of the text at which a well-formed JSON object begins.
BlockStarts(text) ==
    {i \in 1..Len(text) : SubSeq(text, i, i) = "{" /\ ParseValue(text, i).ok}

\* The first well-formed JSON object of the text.
FirstBlock(text) ==
    ParseValue(text, CHOOSE i \in BlockStarts(text) : \A j \in BlockStarts(text) : i <= j).val

\* The object has the requested structure: a response text and a list of
\* recommendations, each an object with a post_id.
Complete(block) ==
    /\ ObjGet(block, "response", JsonNull).t = "str"
    /\ LET recs == ObjGet(block, "recommendations", JsonNull) IN
       IF recs.t # "arr" THEN FALSE
       ELSE \A k \in 1..Len(recs.items) :
               /\ recs.items[k].t = "obj"
               /\ ObjGet(recs.items[k], "post_id", JsonNull).t = "str"

\* The first well-formed block of each text of the model that has one.
BlockOf ==
    [text \in AiTexts |->
        IF BlockStarts(text) = {} THEN Failed ELSE Parsed(FirstBlock(text), 0)]

\* The model returned a text with a well-formed block of the requested
\* structure in it.
HoldsCompleteBlock ==
    /\ ai_reply.kind = "text"
    /\ BlockOf[ai_reply.text].ok
    /\ Complete(BlockOf[ai_reply.text].val)

\* C13: when the text of the model holds a well-formed block of the
\* requested structure, whatever text stands before and behind it, the
\* request is answered by the generative path with the response text of that
\* block and with the recommendations of its first five entries.
C13_EmbeddedBlockUsed ==
    (pc = "answered" /\ HoldsCompleteBlock) =>
        /\ path = "generative"
        /\ result.response = ObjGet(BlockOf[ai_reply.text].val, "response", JsonNull)
        /\ CarriesEach(SelectSeq(
               Take(ObjGet(BlockOf[ai_reply.text].val, "recommendations", JsonNull).items,
                    AiRecommendationLimit),
               NamesPost))

\* The text of the model holds no well-formed block, or its first block has
\* not the requested structure.
Malformed ==
    /\ ai_reply.kind = "text"
    /\ ~HoldsCompleteBlock

\* C14 as stated: a text of the model that holds no well-formed block, or
\* whose block lacks the response, the list of recommendations or the
\* post_id of an entry, is answered by the fallback path.
C14_MalformedFallsBack ==
    (pc = "answered" /\ Malformed) => path = "fallback"

\* C15: a call of the model that has not returned within its timeout is
\* given up and the fallback answers the request: a reply that arrives
\* after the timeout is not what the request is answered with.
C15_LateReplyDiscarded ==
    (pc \in {"answered", "done"} /\ ai_reply.after_timeout) =>
        /\ path = "fallback"
        /\ result = fallback_search(user_message, fallback_posts)

\* C16: a request whose scan of the table raised, on whatever page, ranks
\* nothing and answers nothing from the posts the scan left it with: it ends
\* as a failure of the request.
C16_FetchFailureIsHardFailure ==
    scan_failed =>
        /\ pc \notin {"ranked", "calling", "answered"}
        /\ pc = "done" => response.statusCode = 500

\* C17: the candidates the Ranker returns are posts of the corpus with a
\* score above 0, at most 50 of them, no post left out scores more than one
\* taken in, and they are 50 unless fewer posts score above 0, in which
\* case they are all of these.
C17_TopFiftyPositive ==
    pc = "ranked" =>
        \E scores \in {[i \in 1..Len(all_posts) |-> PostScore(i)]} :
            LET taken == {i \in 1..Len(all_posts) :
                              PlacesOf(relevant_posts, all_posts[i]) # {}}
                positive == {i \in 1..Len(all_posts) : scores[i] > 0}
            IN /\ Cardinality(taken) = Len(relevant_posts)
               /\ taken \subseteq positive
               /\ Len(relevant_posts) <= 50
               /\ \A i \in taken : \A j \in (1..Len(all_posts)) \ taken :
                     scores[j] <= scores[i]
               /\ Len(relevant_posts)
                    = (IF Cardinality(positive) < 50 THEN Cardinality(positive) ELSE 50)

\* More than 50 posts of the corpus score above 0, and 50 are candidates.
C17_Witness ==
    /\ pc = "ranked"
    /\ Len(scored_posts) > 50
    /\ Len(relevant_posts) = 50
    /\ Len(all_posts) > Len(scored_posts)

\* The places of the text at which a run of word characters begins, and
\* those at which one ends.
RunStarts(text) ==
    {i \in 1..Len(text) :
        IsWordChar(At(text, i)) /\ (i = 1 \/ ~IsWordChar(At(text, i - 1)))}

RunEnds(text) ==
    {j \in 1..Len(text) :
        IsWordChar(At(text, j)) /\ (j = Len(text) \/ ~IsWordChar(At(text, j + 1)))}

\* The word tokens of the text: its maximal runs of word characters, from
\* left to right.
Tokens(text) ==
    LET starts == RunStarts(text)
        ends == RunEnds(text)
        start(k) == CHOOSE i \in starts : Cardinality({x \in starts : x < i}) = k - 1
        end(i) == CHOOSE j \in ends : j >= i /\ \A x \in ends : x >= i => j <= x
    IN [k \in 1..Cardinality(starts) |-> SubSeq(text, start(k), end(start(k)))]

\* A token longer than 2 characters that is no stop word.
Kept(token) == Len(token) > 2 /\ token \notin stop_words

RejectedAtOnce ==
    /\ path = "rejected"
    /\ pc = "done"
    /\ response.statusCode = 400
    /\ all_posts = <<>> /\ ~scan_failed
    /\ model_calls = 0
    /\ result = NoResult

\* The conversation_id of the response is the one of the request, or one
\* that was made when the request has none.
ConversationKept ==
    IF event.conversation_id # ""
    THEN response.conversation_id = event.conversation_id
    ELSE response.conversation_id \in GeneratedIds

\* C19 as stated: a message that is empty once trimmed, or has more than
\* 500 characters, is rejected with 400 before the table is read; any other
\* message is accepted and the 200 response keeps its conversation_id.
C19_LongMessagesRejected ==
    pc = "done" =>
        IF Strip(event.message) = "" \/ Len(event.message) > 500
        THEN RejectedAtOnce
        ELSE response.statusCode = 200 /\ ConversationKept

\* C19, amended: a message that, once trimmed, is empty or has more than
\* 500 characters is rejected with 400 before the table is read; any other
\* message is accepted, whatever its length before trimming, and the 200
\* response keeps its conversation_id.
C19_TrimmedLengthDecides ==
    /\ pc # "start" =>
          (path = "rejected"
             <=> (Strip(event.message) = "" \/ Len(Strip(event.message)) > 500))
    /\ path = "rejected" => RejectedAtOnce
    /\ (pc = "done" /\ path # "rejected") =>
          /\ response.statusCode = 200
          /\ ConversationKept

\* A message of more than 500 characters, of which 500 are left by the
\* trimming, was answered 200 with the conversation_id of the request.
C19_Witness ==
    /\ pc = "done"
    /\ Len(event.message) > 500
    /\ Len(user_message) = 500
    /\ response.statusCode = 200
    /\ all_posts # <<>>
    /\ response.conversation_id = "conv-7"

(***************************************************************************)
(* The properties of the crawl.                                            *)
(***************************************************************************)

\* C20: after every save_to_dynamodb call of a run, whatever the reads and
\* writes of the table did, posts_processed is posts_created plus
\* posts_updated, and every counter is a natural number.
C20_CountersAddUp ==
    /\ posts_processed = posts_created + posts_updated
    /\ posts_processed \in Nat
    /\ posts_created \in Nat
    /\ posts_updated \in Nat
    /\ posts_needing_summaries \in Nat
    /\ posts_needing_classification \in Nat

\* The article that get_item returns with the date_updated the sitemap
\* gives as lastmod.
StoredUnchanged(metadata) ==
    /\ BuilderPostId(metadata.url) \in DOMAIN builder_table
    /\ builder_table[BuilderPostId(metadata.url)].date_updated = metadata.date_updated

AiFields == {"summary", "label", "label_confidence", "label_generated"}

\* C21: a save_to_dynamodb call for an article that get_item returns with a
\* date_updated equal to the lastmod (content_changed is False) leaves the
\* summary, label, label_confidence and label_generated of the item as they
\* were, whether update_item returns or raises, and does not add to
\* posts_needing_summaries nor to changed_post_ids.
C21_UnchangedKeepsSummary ==
    [][\A metadata \in Articles, update_raises \in BOOLEAN :
          (StoredUnchanged(metadata) /\ save_to_dynamodb(metadata, FALSE, update_raises))
          => /\ BuilderPostId(metadata.url) \in DOMAIN builder_table'
             /\ \A a \in AiFields :
                   builder_table'[BuilderPostId(metadata.url)][a]
                   = builder_table[BuilderPostId(metadata.url)][a]
             /\ posts_needing_summaries' = posts_needing_summaries
             /\ posts_needing_classification' = posts_needing_classification
             /\ changed_post_ids' = changed_post_ids]_vars

\* One call that found the stored article unchanged and kept its summary
\* while it wrote the crawl time.
C21_Witness ==
    /\ save_returns = <<TRUE>>
    /\ posts_updated = 1
    /\ posts_needing_summaries = 0
    /\ changed_post_ids = <<>>
    /\ "builder-alpha" \in DOMAIN builder_table
    /\ builder_table["builder-alpha"].summary = "Old summary"
    /\ builder_table["builder-alpha"].last_crawled = CrawlTime

\* The article is new, or stored with another date_updated, or stored
\* without one.
NewChangedOrLegacy(metadata) ==
    \/ BuilderPostId(metadata.url) \notin DOMAIN builder_table
    \/ builder_table[BuilderPostId(metadata.url)].date_updated # metadata.date_updated

\* C22: a save_to_dynamodb call for an article that is new, changed or
\* legacy, with a store that takes the write, returns True, leaves the item
\* with an empty summary and the new date_updated, and adds exactly one to
\* posts_needing_summaries; in every call of a run posts_needing_summaries
\* grows by one exactly when the call counts a created post or finds a
\* stored one changed, so that over the run it is the number of created
\* plus the number of changed posts.
C22_ChangedClearsSummary ==
    [][\A metadata \in Articles, get_raises \in BOOLEAN, update_raises \in BOOLEAN :
          save_to_dynamodb(metadata, get_raises, update_raises)
          => /\ (NewChangedOrLegacy(metadata) /\ ~update_raises)
                => /\ save_returns' = Append(save_returns, TRUE)
                   /\ BuilderPostId(metadata.url) \in DOMAIN builder_table'
                   /\ builder_table'[BuilderPostId(metadata.url)].summary = ""
                   /\ builder_table'[BuilderPostId(metadata.url)].date_updated
                      = metadata.date_updated
                   /\ posts_needing_summaries' = posts_needing_summaries + 1
             /\ posts_needing_summaries' - posts_needing_summaries
                = (posts_created' - posts_created)
                  + (IF /\ posts_updated' = posts_updated + 1
                        /\ NewChangedOrLegacy(metadata)
                     THEN 1 ELSE 0)]_vars

\* A run over a legacy or changed article and a new one: both items with an
\* empty summary, two posts needing summaries.
C22_Witness ==
    /\ save_returns = <<TRUE, TRUE>>
    /\ posts_updated = 1
    /\ posts_created = 1
    /\ posts_needing_summaries = 2
    /\ DOMAIN builder_table = {"builder-alpha", "builder-beta"}
    /\ builder_table["builder-alpha"].summary = ""
    /\ builder_table["builder-alpha"].date_updated = "2024-01-20"
    /\ builder_table["builder-beta"].summary = ""

(***************************************************************************)
(* The properties of the facade.                                           *)
(***************************************************************************)

\* The user is the author of the comment.
WrittenBy(comment, user_id) ==
    comment.voter_id = user_id \/ comment.user_id = user_id

\* The user has data left in the posts table or the profiles table.
HasDataOf(user_id) ==
    \/ \E id \in DOMAIN posts_table :
          \/ Member(user_id, posts_table[id].lovers)
          \/ Member(user_id, posts_table[id].voters)
          \/ \E i \in 1..Len(posts_table[id].comments) :
                WrittenBy(posts_table[id].comments[i], user_id)
    \/ user_id \in profiles

\* C23: when delete_user_profile has just returned success for a user, the
\* user is in no lovers or voters list, no comment of the user is left on a
\* post, and the profile is deleted.
C23_DeleteRemovesAllData ==
    (/\ last_response.op = "delete_user_profile"
     /\ last_response.statusCode = 200
     /\ last_response.user_id \in Users)
    => ~HasDataOf(last_response.user_id)

DistinctEntries(list) ==
    \A i, j \in 1..Len(list) : list[i] = list[j] => i = j

\* C24: in every post a voter id occurs at most once in lovers and at most
\* once in voters, love_votes is the length of lovers and needs_update_votes
\* plus remove_post_votes is the length of voters.
C24_OneVotePerUser ==
    \A id \in DOMAIN posts_table :
       /\ DistinctEntries(posts_table[id].lovers)
       /\ DistinctEntries(posts_table[id].voters)
       /\ posts_table[id].love_votes = Len(posts_table[id].lovers)
       /\ posts_table[id].needs_update_votes + posts_table[id].remove_post_votes
          = Len(posts_table[id].voters)

\* The viewer is authenticated as the user who wrote the comment.
AuthenticatedAsAuthor(viewer, comment) ==
    /\ viewer.token = "accepted"
    /\ viewer.sub \in Users
    /\ WrittenBy(comment, viewer.sub)

\* C25: a comment with moderation_status pending_review that get_comments
\* returns is returned to a viewer authenticated as its author.
C25_PendingOnlyToAuthor ==
    (last_response.op = "get_comments" /\ last_response.statusCode = 200)
    => \A i \in 1..Len(last_response.comments) :
          last_response.comments[i].moderation_status = "pending_review"
          => AuthenticatedAsAuthor(last_response.viewer, last_response.comments[i])

(***************************************************************************)
(* The properties of the moderation.                                       *)
(***************************************************************************)

\* The call has raised or returned a text call_bedrock cannot parse.
ModerationUnusable ==
    /\ moderation_reply.kind # "none"
    /\ ModerationOf[moderation_reply].raises \/ ~ModerationOf[moderation_reply].match

\* The call had not ended when the wait of 2 seconds was over.
NotCompletedWithinWait ==
    \/ wait_expired /\ moderation_reply.kind = "none"
    \/ reply_after_wait

\* C26: what moderate_comment has returned has the status approved or
\* pending_review and a confidence from 0 to 1; it is the default (approved,
\* confidence 0.0) when the call had not ended within the wait of 2
\* seconds and when it raised or returned unparsable text; the comment
\* add_comment stores has the status that was returned.
C26_ModerationResult ==
    mod_pc \in {"returned", "stored"}
    => /\ moderation_result.status \in ModerationStatuses
       /\ moderation_result.confidence \in 0..10
       /\ (NotCompletedWithinWait \/ ModerationUnusable)
          => /\ moderation_result.status = "approved"
             /\ moderation_result.confidence = 0
       /\ mod_pc = "stored"
          => posts_table["a"].comments[Len(posts_table["a"].comments)].moderation_status
             = moderation_result.status

(***************************************************************************)
(* The properties of the summary generator.                                *)
(***************************************************************************)

\* The posts the crawl flagged.
Flagged == {TableOrder[i] : i \in 1..summaries_needed}

\* Every batch the crawler handler counted was invoked and has finished,
\* none with an error.
AllBatchesFinished ==
    /\ summary_batches_invoked = NumBatches(summaries_needed)
    /\ Len(runs) = summary_batches_invoked
    /\ \A r \in 1..Len(runs) : runs[r].pc = "done" /\ runs[r].errors = 0

\* C27: once the ceil(n/5) batches of a crawl that flagged n posts have
\* finished, every flagged post has a summary that is not empty and no post
\* was summarized by more than one batch.
C27_BatchesCoverFlagged ==
    AllBatchesFinished
    => /\ \A id \in Flagged : ~SummaryMissing(blog_table[id])
       /\ \A id \in DOMAIN blog_table : Cardinality(summary_writes[id]) <= 1

\* The post a run works on in its next turn.
NextPostOf(r) == runs[r].posts_to_process[runs[r].posts_processed + 1]

\* The turn stores the error text of a failed model call as the summary of
\* the post and counts the post in summaries_generated, not in errors.
ErrorTextStored(r) ==
    /\ blog_table'[NextPostOf(r)].summary = ErrorSummary
    /\ IsErrorSummary(blog_table'[NextPostOf(r)].summary)
    /\ ~SummaryMissing(blog_table'[NextPostOf(r)])
    /\ runs'[r].summaries_generated = runs[r].summaries_generated + 1
    /\ runs'[r].errors = runs[r].errors

PagesFetched == Cardinality(listing.fetched_pages)

\* C29: the loop over the listing pages ends on every site, next links that
\* form a cycle or point to the page itself included; get_page is called at
\* most once for a listing page, never again after a page that could not be
\* fetched, and at most max_pages pages are fetched when max_pages is given.
C29_ListingLoopTerminates ==
    /\ [](\A url \in DOMAIN listing.get_page_calls : listing.get_page_calls[url] <= 1)
    /\ [](listing.max_pages.given => PagesFetched <= listing.max_pages.pages)
    /\ [](listing.failed_page # PyNone => listing.pc = "collected")
    /\ [][listing.pc = "collected" => listing' = listing]_vars
    /\ <>(listing.pc = "collected")

\* The identifier of the k-th entry of the model's list.
ModelId(k) == ObjGet(ModelItems[k], "post_id", JsonNull)

\* The entries of the model's list that are looked at.
FirstFive == 1..(IF Len(ModelItems) < 5 THEN Len(ModelItems) ELSE 5)

\* The result holds a recommendation of the post with this identifier.
Returned(id) ==
    \E k \in 1..Len(result.recommendations) : result.recommendations[k].post_id = id.s

\* The post with this id is among the candidates sent to the model.
Sent(post_id) == \E i \in 1..Len(post_data) : post_data[i].post_id = post_id

\* C30: on the generative path every one of the first five entries whose
\* identifier names a post of the corpus is returned, whether or not the
\* post was sent to the model; every recommendation comes from one of the
\* first five entries; and a post named only in position six or later is
\* not returned.
C30_ResolvedAgainstCorpus ==
    (pc = "answered" /\ path = "generative" /\ ModelListed) =>
        \E items \in {ModelItems} :
        \E corpus \in {{all_posts[i].post_id : i \in 1..Len(all_posts)}} :
        \E returned \in {{result.recommendations[k].post_id :
                             k \in 1..Len(result.recommendations)}} :
            LET id(j) == ObjGet(items[j], "post_id", JsonNull)
                named(j) == id(j).t = "str" /\ id(j).s \in corpus
                first == 1..(IF Len(items) < 5 THEN Len(items) ELSE 5)
            IN /\ \A j \in first : named(j) => id(j).s \in returned
               /\ returned \subseteq {id(j).s : j \in {i \in first : named(i)}}
               /\ \A j \in 6..Len(items) :
                     (named(j) /\ \A i \in first : id(i) # id(j))
                     => id(j).s \notin returned

\* The request was answered on the generative path with a recommendation of
\* a post that scored 0 and was not sent to the model, while one of the
\* first five identifiers named no post and the sixth, which names a post,
\* was not returned.
C30_Witness ==
    /\ pc = "done"
    /\ path = "generative"
    /\ ModelListed
    /\ Len(ModelItems) > 5
    /\ \E j \in FirstFive : ~NamesPost(ModelItems[j])
    /\ NamesPost(ModelItems[6]) /\ ~Returned(ModelId(6))
    /\ \E k \in 1..Len(response.recommendations) :
          /\ ~Sent(response.recommendations[k].post_id)
          /\ \E i \in 1..Len(all_posts) :
                /\ all_posts[i].post_id = response.recommendations[k].post_id
                /\ PostScore(i) = 0

====
